---- MODULE Spec2Model ----
(***************************************************************************)
(* Job application tracker (src/planner.py): the application state of      *)
(* JobTrackerApp, the projection of the canonical list into the displayed  *)
(* list, focus, multi-select and the modal dialogs that swap the main      *)
(* loop's unhandled_input handler.                                         *)
(*                                                                         *)
(* Job objects live in a heap keyed by object identity; self.jobs,         *)
(* self.filtered_jobs and the lists captured by dialog closures hold       *)
(* references (identities), so a status assigned through one list is seen  *)
(* through the others.  Text is a tuple of one-character strings, so that  *)
(* lower(), strip() and the substring test are computed.                   *)
(***************************************************************************)
EXTENDS Integers, Sequences, FiniteSets, TLC

(***************************************************************************)
(* Bounds of the model.                                                    *)
(***************************************************************************)
\* keys dispatched by the main handler (_handle_input) in one session
MaxCommands == 3

\* object identities available to the allocator (derived from the largest
\* initial file and the session length)
MaxIds == 3 + MaxCommands + 2

IdSet == 1..MaxIds

(***************************************************************************)
(* Text.                                                                   *)
(***************************************************************************)
Empty == << >>

LowerChar(c) ==
    CASE c = "A" -> "a"
      [] c = "B" -> "b"
      [] c = "C" -> "c"
      [] OTHER -> c

\* str.lower()
Lower(s) == [i \in 1..Len(s) |-> LowerChar(s[i])]

\* the Python test `sub in s` on strings
Contains(sub, s) ==
    \E i \in 0..(Len(s) - Len(sub)) : SubSeq(s, i + 1, i + Len(sub)) = sub

RECURSIVE LStrip(_)
LStrip(s) == IF s # Empty /\ Head(s) = " " THEN LStrip(Tail(s)) ELSE s

RECURSIVE RStrip(_)
RStrip(s) ==
    IF s # Empty /\ s[Len(s)] = " " THEN RStrip(SubSeq(s, 1, Len(s) - 1)) ELSE s

\* a strip() that keeps the blanks
StripKeepsBlanks(s) == s

\* str.strip()
Strip(s) == RStrip(LStrip(s))

(***************************************************************************)
(* Dates.  A date string is text whose single element stands for the       *)
(* characters of one date; datetime.strptime(s, "%Y-%m-%d") yields a day   *)
(* number or raises ValueError (NoDay).  %m and %d accept one digit, so    *)
(* two different strings can parse to the same day.                        *)
(***************************************************************************)
NoDay == 0 - 1
DatetimeMin == 0
DatetimeMax == 99999
TodayStr == <<"2024-06-15">>

strptime(s) ==
    IF Len(s) # 1 THEN NoDay
    ELSE CASE s[1] = "2024-01-10" -> 10
           [] s[1] = "2024-1-10" -> 10
           [] s[1] = "2024-03-01" -> 61
           [] s[1] = "2024-06-14" -> 166
           [] s[1] = "2024-06-15" -> 167
           [] s[1] = "2024-06-16" -> 168
           [] s[1] = "2024-06-18" -> 170
           [] s[1] = "2024-06-19" -> 171
           [] s[1] = "2024-06-22" -> 174
           [] s[1] = "2024-06-23" -> 175
           [] OTHER -> NoDay

\* _parse_date: the fallback depends on the sort direction at the time of the call
_parse_date(date_str, ascending) ==
    IF strptime(date_str) = NoDay
    THEN (IF ascending THEN DatetimeMin ELSE DatetimeMax)
    ELSE strptime(date_str)

\* datetime.timestamp() of a naive datetime converts through local time: for
\* datetime.max it raises ValueError east of UTC (year 10000), for datetime.min
\* west of UTC (year 0).  The zone is fixed for the process; it is "unread" until
\* the first conversion whose outcome depends on it.
TimeZones == {"utc", "east", "west"}

TimestampRaises(day, zone) ==
    \/ day = DatetimeMax /\ zone = "east"
    \/ day = DatetimeMin /\ zone = "west"

(***************************************************************************)
(* Status.                                                                 *)
(***************************************************************************)
get_status_options == <<"Applied", "Interview", "Offer", "Rejected", "Withdrawn">>

StatusOptions == {get_status_options[i] : i \in 1..Len(get_status_options)}

IndexOf(seq, x) == CHOOSE i \in 1..Len(seq) : seq[i] = x /\ \A k \in 1..(i - 1) : seq[k] # x

status_priority(status) ==
    CASE status = "Interview" -> 1
      [] status = "Applied" -> 2
      [] status = "Offer" -> 3
      [] status = "Rejected" -> 4
      [] status = "Withdrawn" -> 5
      [] OTHER -> 999

\* the status _cycle_job_status assigns: next option, or the first one when the
\* current status is not an option (ValueError from list.index)
NextStatus(status) ==
    IF status \in StatusOptions
    THEN get_status_options[(IndexOf(get_status_options, status) % Len(get_status_options)) + 1]
    ELSE get_status_options[1]

(***************************************************************************)
(* Job objects.  The dataclass has seventeen fields; the six below are the *)
(* ones the inputs of this model ever set to something other than "".      *)
(***************************************************************************)
JobApplication(company, position, date_applied, status, notes, last_contact) ==
    [company |-> company, position |-> position, date_applied |-> date_applied,
     status |-> status, notes |-> notes, last_contact |-> last_contact]

\* sequence helpers
Range(seq) == {seq[i] : i \in 1..Len(seq)}

RemoveAt(seq, i) == SubSeq(seq, 1, i - 1) \o SubSeq(seq, i + 1, Len(seq))

SelectIds(seq, keep) ==
    LET F[i \in 0..Len(seq)] ==
            IF i = 0 THEN << >>
            ELSE IF seq[i] \in keep THEN Append(F[i - 1], seq[i]) ELSE F[i - 1]
    IN F[Len(seq)]

(***************************************************************************)
(* State.                                                                  *)
(***************************************************************************)
VARIABLES
    pc,                 \* "starting" (before __init__) | "running" | "signalled" (in
                        \* sys.exit of the signal handler) | "exited" | "crashed"
                        \* (uncaught exception)
    tz,                 \* local time zone of the process, once a conversion has depended on it
    heap,               \* live JobApplication objects, by identity
    jobs,               \* self.jobs: the canonical list (identities)
    filtered_jobs,      \* self.filtered_jobs
    sort_by_status,     \* self.sort_by_status
    sort_ascending,     \* self.sort_ascending
    filter_text,        \* self.filter_text
    multi_select_mode,  \* self.multi_select_mode
    selected_jobs,      \* self.selected_jobs: a set of id() values
    job_list,           \* rows of self.job_list (identities; no row = the placeholder text)
    focus,              \* self.job_list.focus, 0-based
    unhandled_input,    \* self.main_loop.unhandled_input
    widget,             \* self.main_loop.widget
    old_handler,        \* old_handler captured by the open dialog's closure
    dlg_focus_pos,      \* focus_pos captured by _show_delete_confirmation
    dlg_selected,       \* selected_jobs captured by the bulk dialogs
    _current_job_data,  \* self._current_job_data
    _job_entry_step,    \* self._job_entry_step
    _quick_add_data,    \* self._quick_add_data: [template, data]
    _quick_add_step,    \* self._quick_add_step
    file,               \* ~/.job_tracker.json
    budget,             \* keys _handle_input will still be given in this session
    attention,          \* a get_attention_level() call: the clock, the record's dates
                        \* and the level returned
    old_task_file       \* ~/.planner_tasks.json

listVars == <<heap, jobs, filtered_jobs>>
prefVars == <<sort_by_status, sort_ascending, filter_text>>
selVars == <<multi_select_mode, selected_jobs>>
viewVars == <<job_list, focus>>
modalVars == <<unhandled_input, widget, old_handler, dlg_focus_pos, dlg_selected>>
addVars == <<_current_job_data, _job_entry_step>>
quickVars == <<_quick_add_data, _quick_add_step>>
entryVars == <<addVars, quickVars>>

vars == <<pc, tz, listVars, prefVars, selVars, viewVars, modalVars, entryVars, file, budget,
          attention, old_task_file>>

(***************************************************************************)
(* View projection: sort and filter.                                       *)
(***************************************************************************)
\* tuple comparison of the sort keys
KeyLess(a, b) == a[1] < b[1] \/ (a[1] = b[1] /\ a[2] < b[2])

\* a sort whose reverse is the reversal of the ascending sort
ReversedSort(ids, key, reverse) ==
    LET Before(y, x) == ~KeyLess(key[x], key[y])
        Insert(sorted, x) ==
            LET n == Cardinality({i \in 1..Len(sorted) : Before(sorted[i], x)})
            IN SubSeq(sorted, 1, n) \o <<x>> \o SubSeq(sorted, n + 1, Len(sorted))
        F[i \in 0..Len(ids)] == IF i = 0 THEN << >> ELSE Insert(F[i - 1], ids[i])
        up == F[Len(ids)]
    IN IF reverse THEN [i \in 1..Len(up) |-> up[Len(up) + 1 - i]] ELSE up

\* list.sort(key=..., reverse=...): stable in both directions
StableSort(ids, key, reverse) ==
    LET Before(y, x) == IF reverse THEN ~KeyLess(key[y], key[x]) ELSE ~KeyLess(key[x], key[y])
        Insert(sorted, x) ==
            LET n == Cardinality({i \in 1..Len(sorted) : Before(sorted[i], x)})
            IN SubSeq(sorted, 1, n) \o <<x>> \o SubSeq(sorted, n + 1, Len(sorted))
        F[i \in 0..Len(ids)] == IF i = 0 THEN << >> ELSE Insert(F[i - 1], ids[i])
    IN F[Len(ids)]

\* a date sort that is newest first whatever the direction
_sort_by_date_newest_first(js, h, ascending) ==
    StableSort(js, [i \in Range(js) |-> <<0, _parse_date(h[i].date_applied, ascending)>>],
               TRUE)

\* _sort_by_date
_sort_by_date(js, h, ascending) ==
    StableSort(js, [i \in Range(js) |-> <<0, _parse_date(h[i].date_applied, ascending)>>],
               ~ascending)

\* _sort_by_status_date: key (priority, -timestamp), never reversed
_sort_by_status_date(js, h, ascending) ==
    StableSort(js,
               [i \in Range(js) |-> <<status_priority(h[i].status),
                                      0 - _parse_date(h[i].date_applied, ascending)>>],
               FALSE)

\* _sort_jobs
_sort_jobs(js, h, by_status, ascending) ==
    IF by_status THEN _sort_by_status_date(js, h, ascending) ELSE _sort_by_date(js, h, ascending)

\* the key function of _sort_by_status_date raises ValueError (the list is left as it was)
SortRaises(js, h, by_status, ascending, zone) ==
    /\ by_status
    /\ \E i \in Range(js) : TimestampRaises(_parse_date(h[i].date_applied, ascending), zone)

\* the zones a sort may find: the one the process has, or any when this sort is
\* the first conversion of datetime.min or datetime.max
ZonesAt(known, js, h, by_status, ascending) ==
    IF known # "unread" THEN {known}
    ELSE IF by_status /\ \E i \in Range(js) : strptime(h[i].date_applied) = NoDay
    THEN TimeZones
    ELSE {"unread"}

Matches(job, text) ==
    \/ Contains(Lower(text), Lower(job.company))
    \/ Contains(Lower(text), Lower(job.position))

\* _apply_filter: the new value of self.filtered_jobs
_apply_filter(js, h, text) ==
    IF text = Empty THEN js ELSE SelectIds(js, {i \in Range(js) : Matches(h[i], text)})

\* _get_display_jobs
_get_display_jobs(js, filtered, text) == IF text # Empty THEN filtered ELSE js

DisplayJobs == _get_display_jobs(jobs, filtered_jobs, filter_text)

\* list.index / `in` / list.remove compare with ==, which for a dataclass compares
\* the fields (after the identity shortcut); 0 stands for ValueError
ListIndex(seq, h, x) ==
    IF \E i \in 1..Len(seq) : h[seq[i]] = h[x]
    THEN CHOOSE i \in 1..Len(seq) :
            /\ h[seq[i]] = h[x]
            /\ \A k \in 1..(i - 1) : h[seq[k]] # h[x]
    ELSE 0

\* len(self.job_list): an empty display shows one placeholder row
JobListLen(rows) == IF rows = << >> THEN 1 ELSE Len(rows)

\* objects still referenced after a step; the rest are reclaimed
Collect(h, live) == [i \in (DOMAIN h) \cap live |-> h[i]]

LiveIds(js, filtered, captured, quick) ==
    Range(js) \cup Range(filtered) \cup Range(captured)
        \cup (IF quick.template = 0 THEN {} ELSE {quick.template})

(***************************************************************************)
(* The persisted file.  A JSON object is a function from its keys, so a    *)
(* missing key is a key outside the DOMAIN.                                *)
(***************************************************************************)
Get(d, k, default) == IF k \in DOMAIN d THEN d[k] ELSE default

\* a save that writes every record without its status
save_jobs_without_status(js, h, by_status, ascending, text) ==
    [kind |-> "dict",
     prefs |-> [sort_by_status |-> by_status, sort_ascending |-> ascending,
                filter_text |-> text],
     jobs |-> [i \in 1..Len(js) |->
                  [k \in DOMAIN h[js[i]] \ {"status"} |-> h[js[i]][k]]]]

\* the job file cannot be opened for writing (open raises PermissionError), or
\* the device has no room (json.dump raises OSError after open has truncated
\* the file); both are IOError
OpenRaises(f) == "disk" \in DOMAIN f /\ f.disk = "readonly"
WriteRaises(f) == "disk" \in DOMAIN f /\ f.disk = "full"

\* a save_jobs that lets the IOError of open or of the write reach its caller
save_jobs_reraises(f) == OpenRaises(f) \/ WriteRaises(f)

\* whether save_jobs raises to its caller: `except IOError: pass`
save_jobs_raises(f) == FALSE

\* the job file after save_jobs
save_jobs(js, h, by_status, ascending, text) ==
    IF OpenRaises(file) THEN file
    ELSE IF WriteRaises(file) THEN [kind |-> "malformed", disk |-> "full"]
    ELSE [kind |-> "dict",
          prefs |-> [sort_by_status |-> by_status, sort_ascending |-> ascending,
                     filter_text |-> text],
          jobs |-> [i \in 1..Len(js) |-> h[js[i]]]]

SavedNow == save_jobs(jobs, heap, sort_by_status, sort_ascending, filter_text)

\* a JSON value that is not an object (a number, a string, null) is a record
\* with the one field json; subscripting it with a string raises TypeError
JsonNumber == [json |-> "number"]
JsonString == [json |-> "string"]

IsObject(item) == "json" \notin DOMAIN item

\* item["company"], item["position"], item["date_applied"] raise KeyError when missing
ItemLoads(item) == {"company", "position", "date_applied"} \subseteq DOMAIN item

LoadItem(item) ==
    JobApplication(item.company, item.position, item.date_applied,
                   Get(item, "status", "Applied"), Get(item, "notes", Empty),
                   Get(item, "last_contact", Empty))

\* load_jobs: the preferences and the records it leaves in the application, and
\* whether it raises to its caller.  The kinds of file: "absent" (no file),
\* "unreadable" (open raises IOError), "malformed" (json.load raises
\* JSONDecodeError), "dict" (an object with a jobs key), "object" (an object
\* without one: the loop iterates over its keys), "list", and "null" (null, a
\* number or a boolean: not iterable).  KeyError is caught and empties the list;
\* TypeError is not caught.
load_jobs(f) ==
    LET defaults == [sort_by_status |-> FALSE, sort_ascending |-> FALSE,
                     filter_text |-> Empty]
        prefs == IF f.kind = "dict"
                 THEN [sort_by_status |-> Get(f.prefs, "sort_by_status", FALSE),
                       sort_ascending |-> Get(f.prefs, "sort_ascending", FALSE),
                       filter_text |-> Get(f.prefs, "filter_text", Empty)]
                 ELSE defaults
        jobs_data == CASE f.kind \in {"dict", "list"} -> f.jobs
                       [] f.kind = "object" -> [i \in 1..f.keys |-> JsonString]
                       [] OTHER -> << >>
        bad == {i \in 1..Len(jobs_data) :
                    ~IsObject(jobs_data[i]) \/ ~ItemLoads(jobs_data[i])}
        first_bad == IF bad = {} THEN Len(jobs_data) + 1
                     ELSE CHOOSE i \in bad : \A k \in bad : i <= k
        type_error == \/ f.kind = "null"
                      \/ first_bad <= Len(jobs_data) /\ ~IsObject(jobs_data[first_bad])
        key_error == first_bad <= Len(jobs_data) /\ IsObject(jobs_data[first_bad])
    IN [sort_by_status |-> prefs.sort_by_status,
        sort_ascending |-> prefs.sort_ascending,
        filter_text |-> prefs.filter_text,
        jobs |-> IF key_error THEN << >>
                 ELSE [i \in 1..(first_bad - 1) |-> LoadItem(jobs_data[i])],
        raises |-> type_error]

(***************************************************************************)
(* Inputs: the files a session starts from and the text a user types.      *)
(***************************************************************************)
CompanyAb == <<"A", "b">>
CompanyC == <<"C">>
PositionD == <<"d">>
PositionBc == <<"b", "c">>

ItemInterview ==
    [company |-> CompanyAb, position |-> PositionD, date_applied |-> <<"2024-01-10">>,
     status |-> "Interview"]
ItemNoStatus ==
    [company |-> CompanyC, position |-> PositionBc, date_applied |-> <<"2024-03-01">>]
ItemPending ==
    [company |-> CompanyAb, position |-> PositionBc, date_applied |-> <<"2024-1-10">>,
     status |-> "Pending"]
ItemUndated ==
    [company |-> CompanyC, position |-> PositionD, date_applied |-> Empty, status |-> "Offer"]

NoFile == [kind |-> "absent"]

\* written without the direction and filter preferences
FileLegacyPrefs ==
    [kind |-> "dict", prefs |-> [sort_by_status |-> FALSE],
     jobs |-> <<ItemInterview, ItemNoStatus, ItemPending>>]

\* a committed filter that hides the second record of the canonical list
FileFiltered ==
    [kind |-> "dict",
     prefs |-> [sort_by_status |-> FALSE, sort_ascending |-> FALSE, filter_text |-> <<"C">>],
     jobs |-> <<ItemNoStatus, ItemInterview, ItemPending>>]

\* two records with equal fields around a third with the same date
FileTwins ==
    [kind |-> "dict",
     prefs |-> [sort_by_status |-> FALSE, sort_ascending |-> TRUE, filter_text |-> <<"a">>],
     jobs |-> <<ItemInterview, ItemPending, ItemInterview>>]

\* status sort with a date that does not parse
FileUndated ==
    [kind |-> "dict",
     prefs |-> [sort_by_status |-> TRUE, sort_ascending |-> FALSE, filter_text |-> Empty],
     jobs |-> <<ItemNoStatus, ItemUndated>>]

InitialFiles == {NoFile, FileLegacyPrefs, FileFiltered, FileTwins, FileUndated}

\* files load_jobs fails on: not JSON, not readable, a record without a position
\* after preferences that are not the defaults
FileMalformed == [kind |-> "malformed"]

FileUnreadable == [kind |-> "unreadable"]

ItemNoPosition == [company |-> CompanyC, date_applied |-> <<"2024-03-01">>]

FileMissingPosition ==
    [kind |-> "dict",
     prefs |-> [sort_by_status |-> TRUE, sort_ascending |-> TRUE, filter_text |-> <<"C">>],
     jobs |-> <<ItemInterview, ItemNoPosition>>]

\* well-formed JSON that is not a list of objects: null, an object without a
\* jobs key (with one key, with none), a number in the jobs list, a number in
\* a legacy list
FileNull == [kind |-> "null"]

FileObject == [kind |-> "object", keys |-> 1]

FileEmptyObject == [kind |-> "object", keys |-> 0]

FileNumberInJobs ==
    [kind |-> "dict", prefs |-> [sort_by_status |-> FALSE],
     jobs |-> <<ItemInterview, JsonNumber>>]

FileLegacyList == [kind |-> "list", jobs |-> <<ItemPending, ItemNoStatus>>]

\* status sort over a status group that holds a dated and an undated record
ItemUndatedApplied ==
    [company |-> CompanyAb, position |-> PositionD, date_applied |-> <<"soon">>,
     status |-> "Applied"]

FileUndatedGroup ==
    [kind |-> "dict",
     prefs |-> [sort_by_status |-> TRUE, sort_ascending |-> FALSE, filter_text |-> Empty],
     jobs |-> <<ItemNoStatus, ItemUndatedApplied, ItemInterview>>]

FileNumberInList == [kind |-> "list", jobs |-> <<JsonNumber>>]

LoadFiles ==
    InitialFiles \cup {FileMalformed, FileUnreadable, FileMissingPosition, FileNull, FileObject,
                       FileEmptyObject, FileNumberInJobs, FileLegacyList, FileNumberInList,
                       FileUndatedGroup}

(***************************************************************************)
(* Construction: __init__ (load_jobs, _sort_jobs, _apply_filter, _build_ui)*)
(* followed by run(), which installs _handle_input.                        *)
(***************************************************************************)
NoQuickAdd == [template |-> 0, data |-> << >>]

\* what __init__ leaves when the process finds time zone `zone`: an exception of
\* load_jobs or of _sort_jobs leaves __init__, and main() reports it and exits 1
Construction(f, zone) ==
    LET loaded == load_jobs(f)
        n == Len(loaded.jobs)
        h == [i \in 1..n |-> loaded.jobs[i]]
        ids == [i \in 1..n |-> i]
        raises == \/ loaded.raises
                  \/ SortRaises(ids, h, loaded.sort_by_status, loaded.sort_ascending, zone)
        sorted == IF raises THEN ids
                  ELSE _sort_jobs(ids, h, loaded.sort_by_status, loaded.sort_ascending)
        shown == IF raises THEN << >> ELSE _apply_filter(sorted, h, loaded.filter_text)
    IN [pc |-> IF raises THEN "crashed" ELSE "running",
        heap |-> h,
        jobs |-> sorted,
        filtered_jobs |-> shown,
        sort_by_status |-> loaded.sort_by_status,
        sort_ascending |-> loaded.sort_ascending,
        filter_text |-> loaded.filter_text,
        job_list |-> IF raises THEN << >>
                     ELSE _get_display_jobs(sorted, shown, loaded.filter_text)]

\* the zones the sort of __init__ may find (none when load_jobs raised)
ConstructionZones(f) ==
    LET loaded == load_jobs(f)
        n == Len(loaded.jobs)
    IN IF loaded.raises THEN {"unread"}
       ELSE ZonesAt("unread", [i \in 1..n |-> i], [i \in 1..n |-> loaded.jobs[i]],
                    loaded.sort_by_status, loaded.sort_ascending)

\* no get_attention_level() call is followed in the sessions
NoCall == [level |-> "none"]

\* the session as __init__ leaves it when run() starts
Constructed(files, commands) ==
    \E f \in files :
        \E zone \in ConstructionZones(f) :
           \E c \in {Construction(f, zone)} :
              /\ pc = c.pc
              /\ tz = zone
              /\ heap = c.heap
              /\ jobs = c.jobs
              /\ filtered_jobs = c.filtered_jobs
              /\ sort_by_status = c.sort_by_status
              /\ sort_ascending = c.sort_ascending
              /\ filter_text = c.filter_text
              /\ multi_select_mode = FALSE
              /\ selected_jobs = {}
              /\ job_list = c.job_list
              /\ focus = 0
              /\ unhandled_input = "main"
              /\ widget = "ui"
              /\ old_handler = "none"
              /\ dlg_focus_pos = 0
              /\ dlg_selected = << >>
              /\ _current_job_data = << >>
              /\ _job_entry_step = 0
              /\ _quick_add_data = NoQuickAdd
              /\ _quick_add_step = 0
              /\ file = f
              /\ budget = commands

InitWith(files, commands) ==
    /\ Constructed(files, commands)
    /\ attention = NoCall
    /\ old_task_file = NoFile

(***************************************************************************)
(* Pieces shared by the handlers.                                          *)
(***************************************************************************)
\* _refresh_job_list rebuilds self.job_list from the display list; clearing and
\* refilling the focus list walker leaves its focus on row 0
_refresh_job_list(js, filtered, text) ==
    [job_list |-> _get_display_jobs(js, filtered, text), focus |-> 0]

\* a refresh that keeps in the canonical list only the records the filter matches
_apply_sort_and_refresh_filtering(js, h, by_status, ascending, text, focus_pos) ==
    LET sorted == _apply_filter(_sort_jobs(js, h, by_status, ascending), h, text)
    IN [jobs |-> sorted, filtered_jobs |-> sorted, job_list |-> sorted, focus |-> 0]

\* _apply_sort_and_refresh: the sorted list, the filtered list, the rows and the
\* focus it leaves (the caller has checked that the sort key does not raise)
_apply_sort_and_refresh(js, h, by_status, ascending, text, focus_pos) ==
    LET focused_job == IF js # << >> /\ 0 <= focus_pos /\ focus_pos < Len(js)
                       THEN js[focus_pos + 1] ELSE 0
        sorted == _sort_jobs(js, h, by_status, ascending)
        filtered == _apply_filter(sorted, h, text)
        display_jobs == _get_display_jobs(sorted, filtered, text)
        new_index == IF focused_job # 0 /\ display_jobs # << >>
                     THEN ListIndex(display_jobs, h, focused_job) ELSE 0
    IN [jobs |-> sorted, filtered_jobs |-> filtered, job_list |-> display_jobs,
        focus |-> IF new_index = 0 THEN 0 ELSE new_index - 1]

\* a key reaches _handle_input whatever handler is installed
DispatchedUnderModal ==
    /\ pc = "running"
    /\ budget > 0
    /\ budget' = budget - 1
    /\ UNCHANGED <<attention, old_task_file>>

\* a key reaches _handle_input
Dispatched ==
    /\ pc = "running"
    /\ unhandled_input = "main"
    /\ budget > 0
    /\ budget' = budget - 1
    /\ UNCHANGED <<attention, old_task_file>>

\* a dialog closure installs itself: old_handler = self.main_loop.unhandled_input
OpenDialog(name, installed) ==
    /\ old_handler' = installed
    /\ unhandled_input' = name
    /\ widget' = "overlay"

\* self.main_loop.widget = self.ui; self.main_loop.unhandled_input = old_handler
CloseDialog ==
    /\ widget' = "ui"
    /\ unhandled_input' = old_handler
    /\ old_handler' = "none"
    /\ dlg_focus_pos' = 0
    /\ dlg_selected' = << >>

\* the next step's dialog opened over the dialog of the step before
NextStepNested(name) == OpenDialog(name, unhandled_input)

\* between two steps of an entry: the closing step puts old_handler back, and the
\* dialog of the next step saves the handler it finds installed
NextStep(name) == OpenDialog(name, old_handler)

\* an exception leaves run(): its finally clause saves, main() reports and exits 1
Crash(js, h, by_status, ascending, text) ==
    /\ pc' = "crashed"
    /\ file' = save_jobs(js, h, by_status, ascending, text)

(***************************************************************************)
(* _handle_input: quit, navigation, sort toggles.                          *)
(***************************************************************************)
Quit(key) ==
    /\ key = "q"
    /\ Dispatched
    /\ file' = SavedNow
    /\ pc' = "exited"
    /\ UNCHANGED <<tz, listVars, prefVars, selVars, viewVars, modalVars, entryVars>>

\* _move_focus(direction)
_move_focus(key) ==
    /\ key \in {"j", "k"}
    /\ Dispatched
    /\ LET new_pos == focus + (IF key = "j" THEN 1 ELSE 0 - 1)
       IN focus' = IF DisplayJobs = << >> THEN focus
                   ELSE IF new_pos < 0 THEN 0
                   ELSE IF new_pos >= JobListLen(job_list) THEN JobListLen(job_list) - 1
                   ELSE new_pos
    /\ UNCHANGED <<pc, tz, listVars, prefVars, selVars, job_list, modalVars, entryVars, file>>

\* _move_to_top: "g", and "G" too, since the key is lower-cased before the test
_move_to_top(key) ==
    /\ key \in {"g", "G"}
    /\ Dispatched
    /\ focus' = IF DisplayJobs # << >> THEN 0 ELSE focus
    /\ UNCHANGED <<pc, tz, listVars, prefVars, selVars, job_list, modalVars, entryVars, file>>

\* the common tail of the two sort toggles
SortToggled(by_status, ascending) ==
    /\ sort_by_status' = by_status
    /\ sort_ascending' = ascending
    /\ tz' \in ZonesAt(tz, jobs, heap, by_status, ascending)
    /\ IF SortRaises(jobs, heap, by_status, ascending, tz')
       THEN /\ Crash(jobs, heap, by_status, ascending, filter_text)
            /\ UNCHANGED <<listVars, viewVars>>
       ELSE LET r == _apply_sort_and_refresh(jobs, heap, by_status, ascending,
                                             filter_text, focus)
            IN /\ jobs' = r.jobs
               /\ filtered_jobs' = r.filtered_jobs
               /\ job_list' = r.job_list
               /\ focus' = r.focus
               /\ heap' = Collect(heap, LiveIds(r.jobs, r.filtered_jobs, dlg_selected,
                                                _quick_add_data))
               /\ UNCHANGED <<pc, file>>
    /\ UNCHANGED <<filter_text, selVars, modalVars, entryVars>>

\* _toggle_sort_direction
_toggle_sort_direction(key) ==
    /\ key = "o"
    /\ Dispatched
    /\ SortToggled(sort_by_status, ~sort_ascending)

\* _toggle_sort_mode
_toggle_sort_mode(key) ==
    /\ key = "t"
    /\ Dispatched
    /\ SortToggled(~sort_by_status, sort_ascending)

(***************************************************************************)
(* _handle_input: status cycle and single delete.                          *)
(***************************************************************************)
\* the record a focused-record command acts on: display_jobs[focus_pos], or 0
\* when the display list is empty or the focus is outside it
FocusedJob ==
    IF DisplayJobs # << >> /\ 0 <= focus /\ focus < Len(DisplayJobs)
    THEN DisplayJobs[focus + 1] ELSE 0

\* _cycle_job_status
_cycle_job_status(key) ==
    /\ key = "s"
    /\ Dispatched
    /\ IF FocusedJob = 0
       THEN UNCHANGED <<pc, listVars, viewVars, file>>
       ELSE LET current_job == FocusedJob
                h == [heap EXCEPT ![current_job].status = NextStatus(@)]
                filtered == _apply_filter(jobs, h, filter_text)
                view == _refresh_job_list(jobs, filtered, filter_text)
                live == Collect(h, LiveIds(jobs, filtered, dlg_selected, _quick_add_data))
            IN /\ heap' = live
               /\ filtered_jobs' = filtered
               /\ job_list' = view.job_list
               /\ UNCHANGED jobs
               \* self.job_list.set_focus(focus_pos) raises IndexError past the last row
               /\ IF focus < JobListLen(view.job_list) /\ ~save_jobs_raises(file)
                  THEN /\ focus' = focus
                       /\ file' = save_jobs(jobs, h, sort_by_status, sort_ascending,
                                            filter_text)
                       /\ UNCHANGED pc
                  ELSE /\ focus' = view.focus
                       /\ Crash(jobs, h, sort_by_status, sort_ascending, filter_text)
    /\ UNCHANGED <<tz, prefVars, selVars, modalVars, entryVars>>

\* _delete_current_job: opens the confirmation for display_jobs[focus_pos], with
\* the index list.index finds for it in self.jobs (ValueError: nothing happens)
_delete_current_job(key) ==
    /\ key = "d"
    /\ Dispatched
    /\ LET actual_index == IF FocusedJob = 0 THEN 0 ELSE ListIndex(jobs, heap, FocusedJob)
       IN IF actual_index = 0
          THEN UNCHANGED modalVars
          ELSE /\ OpenDialog("delete", unhandled_input)
               /\ dlg_focus_pos' = actual_index - 1
               /\ UNCHANGED dlg_selected
    /\ UNCHANGED <<pc, tz, listVars, prefVars, selVars, viewVars, entryVars, file>>

\* _show_delete_confirmation.handle_input
delete_handle_input(key) ==
    /\ pc = "running"
    /\ unhandled_input = "delete"
    /\ \/ /\ key \in {"y", "Y"}
          /\ LET js == RemoveAt(jobs, dlg_focus_pos + 1)
                 view == _refresh_job_list(js, filtered_jobs, filter_text)
             IN /\ jobs' = js
                /\ job_list' = view.job_list
                /\ heap' = Collect(heap, LiveIds(js, filtered_jobs, << >>, _quick_add_data))
                /\ UNCHANGED filtered_jobs
                /\ IF save_jobs_raises(file) \/ (dlg_focus_pos >= Len(js) /\ Len(js) > 0)
                   THEN \* set_focus(len(self.jobs) - 1) on the rows of the display list
                        IF Len(js) - 1 < JobListLen(view.job_list) /\ ~save_jobs_raises(file)
                        THEN /\ focus' = Len(js) - 1
                             /\ file' = save_jobs(js, heap, sort_by_status,
                                                  sort_ascending, filter_text)
                             /\ CloseDialog
                             /\ UNCHANGED pc
                        ELSE /\ focus' = view.focus
                             /\ Crash(js, heap, sort_by_status, sort_ascending,
                                      filter_text)
                             /\ UNCHANGED modalVars
                   ELSE /\ focus' = view.focus
                        /\ file' = save_jobs(js, heap, sort_by_status, sort_ascending,
                                             filter_text)
                        /\ CloseDialog
                        /\ UNCHANGED pc
       \/ /\ key \in {"n", "N", "esc"}
          /\ CloseDialog
          /\ UNCHANGED <<pc, listVars, viewVars, file>>
       \/ /\ key \notin {"y", "Y", "n", "N", "esc"}
          /\ UNCHANGED <<pc, listVars, viewVars, modalVars, file>>
    /\ UNCHANGED <<tz, prefVars, selVars, entryVars, budget, attention, old_task_file>>

(***************************************************************************)
(* _handle_input: multi-select and the bulk dialogs.                       *)
(***************************************************************************)
\* leaving the mode without self.selected_jobs.clear()
_toggle_multi_select_mode_keeps(key) ==
    /\ key = "m"
    /\ Dispatched
    /\ multi_select_mode' = ~multi_select_mode
    /\ selected_jobs' = selected_jobs
    /\ job_list' = _refresh_job_list(jobs, filtered_jobs, filter_text).job_list
    /\ focus' = _refresh_job_list(jobs, filtered_jobs, filter_text).focus
    /\ UNCHANGED <<pc, tz, listVars, prefVars, modalVars, entryVars, file>>

\* _toggle_multi_select_mode
_toggle_multi_select_mode(key) ==
    /\ key = "m"
    /\ Dispatched
    /\ multi_select_mode' = ~multi_select_mode
    /\ selected_jobs' = IF multi_select_mode THEN {} ELSE selected_jobs
    /\ job_list' = _refresh_job_list(jobs, filtered_jobs, filter_text).job_list
    /\ focus' = _refresh_job_list(jobs, filtered_jobs, filter_text).focus
    /\ UNCHANGED <<pc, tz, listVars, prefVars, modalVars, entryVars, file>>

\* a toggle that only ever selects
ToggledOn(selected, job_id) == selected \cup {job_id}

\* the remove / add branches of _toggle_selection: the selected set after the
\* toggle of job_id
Toggled(selected, job_id) ==
    IF job_id \in selected THEN selected \ {job_id} ELSE selected \cup {job_id}

\* _toggle_selection: id(job) of the focused displayed record
_toggle_selection(key) ==
    /\ key = " "
    /\ multi_select_mode
    /\ Dispatched
    /\ IF FocusedJob = 0
       THEN UNCHANGED <<selected_jobs, viewVars>>
       ELSE /\ selected_jobs' = Toggled(selected_jobs, FocusedJob)
            /\ job_list' = _refresh_job_list(jobs, filtered_jobs, filter_text).job_list
            /\ focus' = _refresh_job_list(jobs, filtered_jobs, filter_text).focus
    /\ UNCHANGED <<pc, tz, listVars, prefVars, multi_select_mode, modalVars, entryVars, file>>

\* a select-all over the canonical list
_select_all_canonical(key) ==
    /\ key = "ctrl a"
    /\ multi_select_mode
    /\ Dispatched
    /\ selected_jobs' = Range(jobs)
    /\ job_list' = _refresh_job_list(jobs, filtered_jobs, filter_text).job_list
    /\ focus' = _refresh_job_list(jobs, filtered_jobs, filter_text).focus
    /\ UNCHANGED <<pc, tz, listVars, prefVars, multi_select_mode, modalVars, entryVars, file>>

\* _select_all
_select_all(key) ==
    /\ key = "ctrl a"
    /\ multi_select_mode
    /\ Dispatched
    /\ selected_jobs' = Range(DisplayJobs)
    /\ job_list' = _refresh_job_list(jobs, filtered_jobs, filter_text).job_list
    /\ focus' = _refresh_job_list(jobs, filtered_jobs, filter_text).focus
    /\ UNCHANGED <<pc, tz, listVars, prefVars, multi_select_mode, modalVars, entryVars, file>>

\* _get_selected_jobs: the displayed records whose id() is in self.selected_jobs
_get_selected_jobs ==
    IF ~multi_select_mode THEN << >> ELSE SelectIds(DisplayJobs, selected_jobs)

\* _bulk_status_change and _bulk_delete: open the dialog over the selected list
BulkOpen(name) ==
    /\ multi_select_mode
    /\ selected_jobs # {}
    /\ Dispatched
    /\ IF _get_selected_jobs = << >>
       THEN UNCHANGED modalVars
       ELSE /\ OpenDialog(name, unhandled_input)
            /\ dlg_selected' = _get_selected_jobs
            /\ UNCHANGED dlg_focus_pos
    /\ UNCHANGED <<pc, tz, listVars, prefVars, selVars, viewVars, entryVars, file>>

_bulk_status_change(key) == key = "b" /\ BulkOpen("bulk_status")

_bulk_delete(key) == key = "ctrl d" /\ BulkOpen("bulk_delete")

\* a bulk tail that stays in multi-select mode with its selection
BulkAppliedKeepsMode(js, h) ==
    LET filtered == _apply_filter(js, h, filter_text)
        view == _refresh_job_list(js, filtered, filter_text)
    IN /\ jobs' = js
       /\ filtered_jobs' = filtered
       /\ heap' = Collect(h, LiveIds(js, filtered, << >>, _quick_add_data))
       /\ job_list' = view.job_list
       /\ focus' = view.focus
       /\ file' = save_jobs(js, h, sort_by_status, sort_ascending, filter_text)
       /\ UNCHANGED selVars
       /\ CloseDialog

\* the tail both bulk handlers share once the records are changed: _apply_filter,
\* _refresh_job_list, save_jobs, leave multi-select mode, _refresh_job_list, close
BulkApplied(js, h) ==
    LET filtered == _apply_filter(js, h, filter_text)
        view == _refresh_job_list(js, filtered, filter_text)
    IN /\ jobs' = js
       /\ filtered_jobs' = filtered
       /\ heap' = Collect(h, LiveIds(js, filtered, << >>, _quick_add_data))
       /\ job_list' = view.job_list
       /\ focus' = view.focus
       /\ file' = save_jobs(js, h, sort_by_status, sort_ascending, filter_text)
       /\ multi_select_mode' = FALSE
       /\ selected_jobs' = {}
       /\ CloseDialog

StatusKeys == {"1", "2", "3", "4", "5"}

StatusOfKey(key) ==
    CASE key = "1" -> get_status_options[1]
      [] key = "2" -> get_status_options[2]
      [] key = "3" -> get_status_options[3]
      [] key = "4" -> get_status_options[4]
      [] key = "5" -> get_status_options[5]

\* _show_bulk_status_dialog.handle_status_input
handle_status_input(key) ==
    /\ pc = "running"
    /\ unhandled_input = "bulk_status"
    /\ \/ /\ key = "esc"
          /\ CloseDialog
          /\ UNCHANGED <<listVars, selVars, viewVars, file>>
       \/ /\ key \in StatusKeys
          /\ BulkApplied(jobs, [i \in DOMAIN heap |->
                                  IF i \in Range(dlg_selected)
                                  THEN [heap[i] EXCEPT !.status = StatusOfKey(key)]
                                  ELSE heap[i]])
       \/ /\ key \notin StatusKeys \cup {"esc"}
          /\ UNCHANGED <<listVars, selVars, viewVars, modalVars, file>>
    /\ UNCHANGED <<pc, tz, prefVars, entryVars, budget, attention, old_task_file>>

\* list.remove(x) after `x in list`: drops the first element that equals x
RemoveEqual(js, h, x) ==
    IF ListIndex(js, h, x) = 0 THEN js ELSE RemoveAt(js, ListIndex(js, h, x))

RemoveAllEqual(js, h, xs) ==
    LET F[i \in 0..Len(xs)] == IF i = 0 THEN js ELSE RemoveEqual(F[i - 1], h, xs[i])
    IN F[Len(xs)]

\* _show_bulk_delete_confirmation.handle_delete_input
handle_delete_input(key) ==
    /\ pc = "running"
    /\ unhandled_input = "bulk_delete"
    /\ \/ /\ key \in {"y", "Y"}
          /\ BulkApplied(RemoveAllEqual(jobs, heap, dlg_selected), heap)
       \/ /\ key \in {"n", "N", "esc"}
          /\ CloseDialog
          /\ UNCHANGED <<listVars, selVars, viewVars, file>>
       \/ /\ key \notin {"y", "Y", "n", "N", "esc"}
          /\ UNCHANGED <<listVars, selVars, viewVars, modalVars, file>>
    /\ UNCHANGED <<pc, tz, prefVars, entryVars, budget, attention, old_task_file>>

(***************************************************************************)
(* Creating records: duplicate, multi-step add, quick add.                 *)
(***************************************************************************)
Min(S) == CHOOSE x \in S : \A y \in S : x <= y

\* id() of a new object: an address no live object has.  It may be the address of
\* a reclaimed object whose id() is still in self.selected_jobs, or not; one
\* identity of each kind is enough, the others differ by renaming.
NewIds ==
    LET free == IdSet \ DOMAIN heap
        reused == free \cap selected_jobs
        fresh == free \ selected_jobs
    IN (IF reused = {} THEN {} ELSE {Min(reused)})
           \cup (IF fresh = {} THEN {} ELSE {Min(fresh)})

\* what follows self.jobs.append(job) in _finalize_job_entry, _duplicate_job and
\* _finalize_quick_add: _apply_sort_and_refresh, save_jobs, focus on the new job
\* (list.index finds the first displayed record equal to it; ValueError: row 0)
Appended(id, job, focus_pos, quick) ==
    LET h == [i \in DOMAIN heap \cup {id} |-> IF i = id THEN job ELSE heap[i]]
        r == _apply_sort_and_refresh(Append(jobs, id), h, sort_by_status,
                                     sort_ascending, filter_text, focus_pos)
        display_jobs == _get_display_jobs(r.jobs, r.filtered_jobs, filter_text)
        new_index == ListIndex(display_jobs, h, id)
    IN /\ jobs' = r.jobs
       /\ filtered_jobs' = r.filtered_jobs
       /\ heap' = Collect(h, LiveIds(r.jobs, r.filtered_jobs, << >>, quick))
       /\ job_list' = r.job_list
       /\ focus' = IF new_index = 0 THEN 0 ELSE new_index - 1
       /\ file' = save_jobs(r.jobs, h, sort_by_status, sort_ascending, filter_text)

\* the sort key raises inside _apply_sort_and_refresh: the record stays appended,
\* nothing is sorted, filtered, refreshed or saved by the handler
AppendedUnsorted(id, job) ==
    /\ jobs' = Append(jobs, id)
    /\ heap' = [i \in DOMAIN heap \cup {id} |-> IF i = id THEN job ELSE heap[i]]
    /\ UNCHANGED <<filtered_jobs, viewVars>>

\* the sort after self.jobs.append(job): the zones it may find, and whether its
\* key raises
AppendZones(job) ==
    ZonesAt(tz, <<0>> \o jobs, [i \in DOMAIN heap \cup {0} |-> IF i = 0 THEN job ELSE heap[i]],
            sort_by_status, sort_ascending)

AppendRaises(job, zone) ==
    /\ sort_by_status
    /\ \/ SortRaises(jobs, heap, sort_by_status, sort_ascending, zone)
       \/ TimestampRaises(_parse_date(job.date_applied, sort_ascending), zone)

\* a duplicate key that is not conditioned on the mode
_duplicate_job_any_mode(key) ==
    /\ key = "c"
    /\ Dispatched
    /\ IF FocusedJob = 0
       THEN UNCHANGED <<tz, listVars, viewVars, file>>
       ELSE \E id \in NewIds :
               LET original_job == heap[FocusedJob]
                   duplicate ==
                       JobApplication(original_job.company, original_job.position,
                                      TodayStr, "Applied",
                                      <<"Duplicated from ">> \o original_job.company
                                          \o <<" application">>,
                                      TodayStr)
               IN /\ tz' \in AppendZones(duplicate)
                  /\ IF AppendRaises(duplicate, tz')
                     THEN AppendedUnsorted(id, duplicate) /\ UNCHANGED file
                     ELSE Appended(id, duplicate, focus, _quick_add_data)
    /\ UNCHANGED <<pc, prefVars, selVars, modalVars, entryVars>>

\* _duplicate_job: a ValueError of the sort is swallowed by its own try
_duplicate_job(key) ==
    /\ key = "c"
    /\ ~multi_select_mode
    /\ Dispatched
    /\ IF FocusedJob = 0
       THEN UNCHANGED <<tz, listVars, viewVars, file>>
       ELSE \E id \in NewIds :
               LET original_job == heap[FocusedJob]
                   duplicate ==
                       JobApplication(original_job.company, original_job.position,
                                      TodayStr, "Applied",
                                      <<"Duplicated from ">> \o original_job.company
                                          \o <<" application">>,
                                      TodayStr)
               IN /\ tz' \in AppendZones(duplicate)
                  /\ IF AppendRaises(duplicate, tz')
                     THEN AppendedUnsorted(id, duplicate) /\ UNCHANGED file
                     ELSE Appended(id, duplicate, focus, _quick_add_data)
    /\ UNCHANGED <<pc, prefVars, selVars, modalVars, entryVars>>

\* dict[key] = value
Put(d, k, v) == [x \in DOMAIN d \cup {k} |-> IF x = k THEN v ELSE d[x]]

\* steps whose position may be left empty
job_steps_position_optional ==
    << <<"company", TRUE>>, <<"position", FALSE>>, <<"link", FALSE>>,
       <<"date_applied", FALSE>>, <<"interview_date", FALSE>>,
       <<"interview_time", FALSE>>, <<"interview_type", FALSE>>,
       <<"recruiter_name", FALSE>>, <<"recruiter_email", FALSE>>,
       <<"salary_min", FALSE>>, <<"salary_max", FALSE>>, <<"notes", FALSE>>,
       <<"next_followup", FALSE>> >>

\* the steps of _start_job_entry: (field, required)
job_steps ==
    << <<"company", TRUE>>, <<"position", TRUE>>, <<"link", FALSE>>,
       <<"date_applied", FALSE>>, <<"interview_date", FALSE>>,
       <<"interview_time", FALSE>>, <<"interview_type", FALSE>>,
       <<"recruiter_name", FALSE>>, <<"recruiter_email", FALSE>>,
       <<"salary_min", FALSE>>, <<"salary_max", FALSE>>, <<"notes", FALSE>>,
       <<"next_followup", FALSE>> >>

\* what the user leaves in the edit box of a step (the date step is pre-filled
\* with today's date)
TypedJobText(field) ==
    CASE field = "company" -> {<<" ">>, CompanyC}
      [] field = "position" -> {Empty, PositionD}
      [] field = "date_applied" -> {TodayStr, Empty}
      [] OTHER -> {Empty}

\* an _add_job that resumes the entry left by the last one
_add_job_resumes(key) ==
    /\ key = "a"
    /\ Dispatched
    /\ _job_entry_step < Len(job_steps)
    /\ UNCHANGED addVars
    /\ OpenDialog("job_input", unhandled_input)
    /\ UNCHANGED <<pc, tz, listVars, prefVars, selVars, viewVars, dlg_focus_pos,
                   dlg_selected, quickVars, file>>

\* _add_job: reset the entry, _start_job_entry shows step 0
_add_job(key) ==
    /\ key = "a"
    /\ Dispatched
    /\ _current_job_data' = << >>
    /\ _job_entry_step' = 0
    /\ OpenDialog("job_input", unhandled_input)
    /\ UNCHANGED <<pc, tz, listVars, prefVars, selVars, viewVars, dlg_focus_pos,
                   dlg_selected, quickVars, file>>

\* _finalize_job_entry, entered with the main view and the saved handler restored
_finalize_job_entry(data) ==
    LET app_date == Get(data, "date_applied", TodayStr)
        job == JobApplication(Get(data, "company", Empty), Get(data, "position", Empty),
                              app_date, "Applied", Get(data, "notes", Empty), app_date)
    IN \E id \in NewIds :
        /\ tz' \in AppendZones(job)
        /\ IF AppendRaises(job, tz')
          THEN /\ AppendedUnsorted(id, job)
               /\ Crash(Append(jobs, id),
                        [i \in DOMAIN heap \cup {id} |-> IF i = id THEN job ELSE heap[i]],
                        sort_by_status, sort_ascending, filter_text)
          ELSE /\ Appended(id, job, focus, _quick_add_data)
               /\ UNCHANGED pc

\* "enter" in _show_job_input_dialog.handle_input with `text` in the edit box
job_confirm(text) ==
    LET field == job_steps[_job_entry_step + 1][1]
        required == job_steps[_job_entry_step + 1][2]
        value == Strip(text)
        data == Put(_current_job_data, field, value)
    IN IF required /\ value = Empty
       THEN UNCHANGED <<pc, tz, listVars, viewVars, modalVars, addVars, file>>
       ELSE /\ _current_job_data' = data
            /\ _job_entry_step' = _job_entry_step + 1
            /\ IF _job_entry_step + 1 < Len(job_steps)
               THEN /\ NextStep("job_input")
                    /\ UNCHANGED <<pc, tz, listVars, viewVars, dlg_focus_pos, dlg_selected,
                                   file>>
               ELSE /\ CloseDialog
                    /\ _finalize_job_entry(data)

\* _show_job_input_dialog.handle_input; every other key goes to the edit box
job_handle_input(key) ==
    /\ pc = "running"
    /\ unhandled_input = "job_input"
    /\ \/ /\ key = "enter"
          /\ \E text \in TypedJobText(job_steps[_job_entry_step + 1][1]) : job_confirm(text)
       \/ /\ key = "esc"
          /\ CloseDialog
          /\ UNCHANGED <<pc, tz, listVars, viewVars, addVars, file>>
       \/ /\ key \notin {"enter", "esc"}
          /\ UNCHANGED <<pc, tz, listVars, viewVars, modalVars, addVars, file>>
    /\ UNCHANGED <<prefVars, selVars, quickVars, budget, attention, old_task_file>>

\* the steps of _start_quick_add: (field, required)
quick_steps == << <<"company", TRUE>>, <<"position", FALSE>>, <<"date_applied", FALSE>> >>

\* the edit box of a quick-add step: position is pre-filled with the template's,
\* the date with today's
TypedQuickText(field, template) ==
    CASE field = "company" -> {Empty, CompanyAb}
      [] field = "position" -> {template.position}
      [] OTHER -> {TodayStr}

\* _quick_add_similar / _show_quick_add_dialog: the focused record is the template
_quick_add_similar(key) ==
    /\ key = "ctrl q"
    /\ ~multi_select_mode
    /\ Dispatched
    /\ IF FocusedJob = 0
       THEN UNCHANGED <<modalVars, quickVars>>
       ELSE /\ _quick_add_data' = [template |-> FocusedJob, data |-> << >>]
            /\ _quick_add_step' = 0
            /\ OpenDialog("quick_add", unhandled_input)
            /\ UNCHANGED <<dlg_focus_pos, dlg_selected>>
    \* the template replaced in self._quick_add_data may have been the last
    \* reference to a deleted record
    /\ heap' = Collect(heap, LiveIds(jobs, filtered_jobs, << >>, _quick_add_data'))
    /\ UNCHANGED <<pc, tz, jobs, filtered_jobs, prefVars, selVars, viewVars, addVars, file>>

\* _finalize_quick_add
_finalize_quick_add(quick) ==
    LET template == heap[quick.template]
        job == JobApplication(Get(quick.data, "company", Empty),
                              Get(quick.data, "position", template.position),
                              Get(quick.data, "date_applied", TodayStr), "Applied",
                              <<"Quick-added using ">> \o template.company
                                  \o <<" as template">>,
                              TodayStr)
    IN \E id \in NewIds :
        /\ tz' \in AppendZones(job)
        /\ IF AppendRaises(job, tz')
          THEN /\ AppendedUnsorted(id, job)
               /\ Crash(Append(jobs, id),
                        [i \in DOMAIN heap \cup {id} |-> IF i = id THEN job ELSE heap[i]],
                        sort_by_status, sort_ascending, filter_text)
          ELSE /\ Appended(id, job, focus, quick)
               /\ UNCHANGED pc

\* "enter" in _show_quick_add_input_dialog.handle_input with `text` in the edit box
quick_confirm(text) ==
    LET field == quick_steps[_quick_add_step + 1][1]
        required == quick_steps[_quick_add_step + 1][2]
        value == Strip(text)
        quick == [_quick_add_data EXCEPT !.data = Put(@, field, value)]
    IN IF required /\ value = Empty
       THEN UNCHANGED <<pc, tz, listVars, viewVars, modalVars, quickVars, file>>
       ELSE /\ _quick_add_data' = quick
            /\ _quick_add_step' = _quick_add_step + 1
            /\ IF _quick_add_step + 1 < Len(quick_steps)
               THEN /\ NextStep("quick_add")
                    /\ UNCHANGED <<pc, tz, listVars, viewVars, dlg_focus_pos, dlg_selected,
                                   file>>
               ELSE /\ CloseDialog
                    /\ _finalize_quick_add(quick)

\* _show_quick_add_input_dialog.handle_input
quick_handle_input(key) ==
    /\ pc = "running"
    /\ unhandled_input = "quick_add"
    /\ \/ /\ key = "enter"
          /\ \E text \in TypedQuickText(quick_steps[_quick_add_step + 1][1],
                                        heap[_quick_add_data.template]) :
                quick_confirm(text)
       \/ /\ key = "esc"
          /\ CloseDialog
          /\ UNCHANGED <<pc, tz, listVars, viewVars, quickVars, file>>
       \/ /\ key \notin {"enter", "esc"}
          /\ UNCHANGED <<pc, tz, listVars, viewVars, modalVars, quickVars, file>>
    /\ UNCHANGED <<prefVars, selVars, addVars, budget, attention, old_task_file>>

(***************************************************************************)
(* The search dialog and the display-only dialogs.                         *)
(***************************************************************************)
\* what the user leaves in the filter edit box
TypedFilterText == {<<" ">>, <<"a">>, <<"C">>}

\* update_filter_preview: _set_filter(current_text), count, _set_filter(temp_filter);
\* self.filter_text is back to the committed filter and self.filtered_jobs is
\* recomputed for it
update_filter_preview == _apply_filter(jobs, heap, filter_text)

\* _show_search_dialog: the preview runs once before the dialog is installed
_show_search_dialog(key) ==
    /\ key = "/"
    /\ Dispatched
    /\ filtered_jobs' = update_filter_preview
    /\ heap' = Collect(heap, LiveIds(jobs, filtered_jobs', << >>, _quick_add_data))
    /\ OpenDialog("search", unhandled_input)
    /\ UNCHANGED <<pc, tz, jobs, prefVars, selVars, viewVars, dlg_focus_pos, dlg_selected,
                   entryVars, file>>

\* _show_search_dialog.handle_search_input
handle_search_input(key) ==
    /\ pc = "running"
    /\ unhandled_input = "search"
    /\ \/ /\ key = "enter"
          /\ \E text \in TypedFilterText :
                LET new_filter == Strip(text)
                    filtered == _apply_filter(jobs, heap, new_filter)
                    view == _refresh_job_list(jobs, filtered, new_filter)
                IN /\ filter_text' = new_filter
                   /\ filtered_jobs' = filtered
                   /\ heap' = Collect(heap, LiveIds(jobs, filtered, << >>, _quick_add_data))
                   /\ job_list' = view.job_list
                   /\ focus' = view.focus
                   /\ file' = save_jobs(jobs, heap, sort_by_status, sort_ascending,
                                        new_filter)
                   /\ CloseDialog
       \/ /\ key = "esc"
          /\ CloseDialog
          /\ UNCHANGED <<heap, filtered_jobs, filter_text, viewVars, file>>
       \/ \* "ctrl d" clears the edit box, any other key edits it; both end in
          \* update_filter_preview
          /\ key \notin {"enter", "esc"}
          /\ filtered_jobs' = update_filter_preview
          /\ heap' = Collect(heap, LiveIds(jobs, filtered_jobs', << >>, _quick_add_data))
          /\ UNCHANGED <<filter_text, viewVars, modalVars, file>>
    /\ UNCHANGED <<pc, tz, jobs, sort_by_status, sort_ascending, selVars, entryVars, budget, attention, old_task_file>>

\* _view_job_details (needs a focused record), _show_statistics_dialog,
\* _show_timeline_dialog, _show_reminders_dialog: text only
ShowDisplayDialog(key) ==
    /\ key \in {"v", "enter", "i", "l", "r"}
    /\ Dispatched
    /\ IF key \in {"v", "enter"} /\ FocusedJob = 0
       THEN UNCHANGED modalVars
       ELSE /\ OpenDialog("display", unhandled_input)
            /\ UNCHANGED <<dlg_focus_pos, dlg_selected>>
    /\ UNCHANGED <<pc, tz, listVars, prefVars, selVars, viewVars, entryVars, file>>

\* close_dialog: any key
close_dialog(key) ==
    /\ pc = "running"
    /\ unhandled_input = "display"
    /\ CloseDialog
    /\ UNCHANGED <<pc, tz, listVars, prefVars, selVars, viewVars, entryVars, file, budget, attention, old_task_file>>

(***************************************************************************)
(* The key dispatcher and the specification.                               *)
(***************************************************************************)
Keys ==
    {"q", "a", "d", "s", "enter", "o", "t", "/", "m", " ", "ctrl a", "b", "ctrl d",
     "c", "ctrl q", "j", "k", "g", "G", "esc", "y", "5"}

\* the keys _handle_input has a branch for, given the mode
Recognized(key) ==
    \/ key \in {"q", "a", "d", "s", "v", "enter", "o", "t", "/", "i", "l", "r", "m",
                "j", "k", "g", "G"}
    \/ key \in {" ", "ctrl a"} /\ multi_select_mode
    \/ key \in {"b", "ctrl d"} /\ multi_select_mode /\ selected_jobs # {}
    \/ key \in {"c", "ctrl q"} /\ ~multi_select_mode

\* no branch of _handle_input matches: the key is returned
NoCommand(key) ==
    /\ ~Recognized(key)
    /\ Dispatched
    /\ UNCHANGED <<pc, tz, listVars, prefVars, selVars, viewVars, modalVars, entryVars, file>>

\* _handle_input
_handle_input(key) ==
    \/ Quit(key)
    \/ _add_job(key)
    \/ _delete_current_job(key)
    \/ _cycle_job_status(key)
    \/ ShowDisplayDialog(key)
    \/ _toggle_sort_direction(key)
    \/ _toggle_sort_mode(key)
    \/ _show_search_dialog(key)
    \/ _toggle_multi_select_mode(key)
    \/ _toggle_selection(key)
    \/ _select_all(key)
    \/ _bulk_status_change(key)
    \/ _bulk_delete(key)
    \/ _duplicate_job(key)
    \/ _quick_add_similar(key)
    \/ _move_focus(key)
    \/ _move_to_top(key)
    \/ NoCommand(key)

\* the main loop hands one key to the installed handler
HandleKey(key) ==
    \/ _handle_input(key)
    \/ job_handle_input(key)
    \/ handle_search_input(key)
    \/ delete_handle_input(key)
    \/ close_dialog(key)
    \/ handle_status_input(key)
    \/ handle_delete_input(key)
    \/ quick_handle_input(key)

Next == \E key \in Keys : HandleKey(key)

\* a session of MaxCommands commands over the file with a committed filter
Init == InitWith({FileFiltered}, MaxCommands)

Spec == Init /\ [][Next]_vars

\* a multi-select session: two commands more, over the files with a filter
BulkKeys == {"m", " ", "ctrl a", "b", "ctrl d", "j", "esc", "y", "5"}

InitBulk == InitWith({FileTwins, FileFiltered}, MaxCommands + 2)

NextBulk ==
    \E key \in BulkKeys :
        \/ _toggle_multi_select_mode(key)
        \/ _toggle_selection(key)
        \/ _select_all(key)
        \/ _bulk_status_change(key)
        \/ _bulk_delete(key)
        \/ _move_focus(key)
        \/ NoCommand(key)
        \/ handle_status_input(key)
        \/ handle_delete_input(key)

SpecBulk == InitBulk /\ [][NextBulk]_vars

(***************************************************************************)
(* Start-up: the process before __init__ has run, over every kind of file, *)
(* and the next launch over the file the last one left.                    *)
(***************************************************************************)
\* the attributes as __init__ sets them before load_jobs
Unloaded ==
    /\ tz = "unread"
    /\ heap = << >>
    /\ jobs = << >>
    /\ filtered_jobs = << >>
    /\ sort_by_status = FALSE
    /\ sort_ascending = FALSE
    /\ filter_text = Empty
    /\ multi_select_mode = FALSE
    /\ selected_jobs = {}
    /\ job_list = << >>
    /\ focus = 0
    /\ unhandled_input = "main"
    /\ widget = "ui"
    /\ old_handler = "none"
    /\ dlg_focus_pos = 0
    /\ dlg_selected = << >>
    /\ _current_job_data = << >>
    /\ _job_entry_step = 0
    /\ _quick_add_data = NoQuickAdd
    /\ _quick_add_step = 0

(***************************************************************************)
(* Migration of the old task file ~/.planner_tasks.json, which __init__    *)
(* runs before load_jobs when that file exists and the job file does not.  *)
(***************************************************************************)
Separator == <<" ", "-", " ">>

\* a split at the rightmost separator (str.rsplit)
SplitOnceLast(text) ==
    LET at == CHOOSE i \in 1..(Len(text) - 2) :
                  /\ SubSeq(text, i, i + 2) = Separator
                  /\ \A k \in (i + 1)..(Len(text) - 2) : SubSeq(text, k, k + 2) # Separator
    IN <<SubSeq(text, 1, at - 1), SubSeq(text, at + 3, Len(text))>>

\* text.split(" - ", 1) of a text that holds the separator
SplitOnce(text) ==
    LET at == CHOOSE i \in 1..(Len(text) - 2) :
                  /\ SubSeq(text, i, i + 2) = Separator
                  /\ \A k \in 1..(i - 1) : SubSeq(text, k, k + 2) # Separator
    IN <<SubSeq(text, 1, at - 1), SubSeq(text, at + 3, Len(text))>>

\* the items the loop converts: isinstance(item, dict) and "text" in item
TextItems(items) == SelectSeq(items, LAMBDA item : IsObject(item) /\ "text" \in DOMAIN item)

\* the JobApplication built from one old task
MigratedJob(item) ==
    LET text == item.text
        parts == IF Contains(Separator, text) THEN SplitOnce(text)
                 ELSE <<(<<"Unknown Company">>), text>>
    IN JobApplication(parts[1], parts[2], TodayStr,
                      IF Get(item, "completed", FALSE) THEN "Rejected" ELSE "Applied",
                      Empty, Empty)

\* _migrate_from_tasks: the job file and the old file it leaves, and whether it
\* raises to __init__.  The kinds of old file: "unreadable" and "malformed"
\* (IOError and JSONDecodeError are caught), "null" (not iterable: TypeError is
\* not caught) and "list"; the renamed file is kept under bak
_migrate_from_tasks(old) ==
    LET texts == IF old.kind = "list" THEN TextItems(old.items) ELSE << >>
        migrated == [i \in 1..Len(texts) |-> MigratedJob(texts[i])]
    IN IF old.kind = "list"
       THEN [file |-> save_jobs([i \in 1..Len(texts) |-> i], migrated, FALSE, FALSE, Empty),
             old_task_file |-> [kind |-> "absent", bak |-> old],
             raises |-> FALSE]
       ELSE [file |-> NoFile, old_task_file |-> old, raises |-> old.kind = "null"]

\* lines 190-193 of __init__
Migration(old, f) ==
    IF old.kind # "absent" /\ f.kind = "absent" THEN _migrate_from_tasks(old)
    ELSE [file |-> f, old_task_file |-> old, raises |-> FALSE]

OldTasks ==
    [kind |-> "list",
     items |-> <<[text |-> <<"A", " ", "-", " ", "b", " ", "-", " ", "c">>, completed |-> TRUE],
                 [completed |-> TRUE],
                 JsonNumber,
                 [text |-> <<"b", "-", "c">>],
                 [text |-> <<"C", " ", "-", " ", "d">>, completed |-> FALSE]>>]

OldTasksEmpty == [kind |-> "list", items |-> << >>]

LegacyFiles ==
    {NoFile, OldTasks, OldTasksEmpty, [kind |-> "null"], [kind |-> "malformed"],
     [kind |-> "unreadable"]}

InitLoad ==
    /\ pc = "starting"
    /\ Unloaded
    /\ file \in LoadFiles
    /\ budget = MaxCommands
    /\ attention = NoCall
    /\ old_task_file = NoFile

\* JobTrackerApp(): load_jobs, _sort_jobs, _apply_filter, _build_ui, then run()
__init__ ==
    /\ pc = "starting"
    /\ \E m \in {Migration(old_task_file, file)} :
          /\ file' = m.file
          /\ old_task_file' = m.old_task_file
          /\ IF m.raises
             THEN /\ pc' = "crashed"
                  /\ UNCHANGED <<tz, listVars, prefVars, job_list>>
             ELSE \E zone \in ConstructionZones(m.file) :
                     \E c \in {Construction(m.file, zone)} :
                        /\ pc' = c.pc
                        /\ tz' = zone
                        /\ heap' = c.heap
                        /\ jobs' = c.jobs
                        /\ filtered_jobs' = c.filtered_jobs
                        /\ sort_by_status' = c.sort_by_status
                        /\ sort_ascending' = c.sort_ascending
                        /\ filter_text' = c.filter_text
                        /\ job_list' = c.job_list
    /\ UNCHANGED <<selVars, focus, modalVars, entryVars, budget, attention>>

\* the process has ended; the program is started again on the file it left
Relaunch ==
    /\ pc \in {"exited", "crashed"}
    /\ pc' = "starting"
    /\ tz' = "unread"
    /\ heap' = << >>
    /\ jobs' = << >>
    /\ filtered_jobs' = << >>
    /\ sort_by_status' = FALSE
    /\ sort_ascending' = FALSE
    /\ filter_text' = Empty
    /\ multi_select_mode' = FALSE
    /\ selected_jobs' = {}
    /\ job_list' = << >>
    /\ focus' = 0
    /\ unhandled_input' = "main"
    /\ widget' = "ui"
    /\ old_handler' = "none"
    /\ dlg_focus_pos' = 0
    /\ dlg_selected' = << >>
    /\ _current_job_data' = << >>
    /\ _job_entry_step' = 0
    /\ _quick_add_data' = NoQuickAdd
    /\ _quick_add_step' = 0
    /\ UNCHANGED <<file, budget, attention, old_task_file>>

LoadKeys == {"q", "o", "t", "s", "j", "esc"}

NextLoad ==
    \/ __init__
    \/ Relaunch
    \/ \E key \in LoadKeys :
          \/ Quit(key)
          \/ _toggle_sort_direction(key)
          \/ _toggle_sort_mode(key)
          \/ _cycle_job_status(key)
          \/ _move_focus(key)
          \/ NoCommand(key)

SpecLoad == InitLoad /\ [][NextLoad]_vars

\* start-ups over every kind of old task file, with and without a job file
InitMigrate ==
    /\ pc = "starting"
    /\ Unloaded
    /\ file \in {NoFile, FileFiltered}
    /\ old_task_file \in LegacyFiles
    /\ budget = MaxCommands
    /\ attention = NoCall

SpecMigrate == InitMigrate /\ [][NextLoad]_vars

(***************************************************************************)
(* Signals.  SIGINT and SIGTERM run _signal_handler between two bytecodes  *)
(* of the main thread: it saves and calls sys.exit(0), and the SystemExit  *)
(* unwinds through whatever the main loop was doing to the finally clause  *)
(* of run(), which saves again.  pc = "signalled" is the process between   *)
(* the two saves.                                                          *)
(***************************************************************************)
\* _signal_handler, reading `seen` as self.jobs
_signal_handler(seen, h, by_status, ascending, text) ==
    /\ file' = save_jobs(seen, h, by_status, ascending, text)
    /\ pc' = "signalled"

\* the signal arrives while the main loop waits for a key, under any handler
signal_while_waiting ==
    /\ pc = "running"
    /\ _signal_handler(jobs, heap, sort_by_status, sort_ascending, filter_text)
    /\ UNCHANGED <<tz, listVars, prefVars, selVars, viewVars, modalVars, entryVars, budget, attention, old_task_file>>

\* self.jobs as Python code sees it while list.sort runs the key function: the
\* effect of inspecting a list being sorted is undefined, and CPython makes the
\* list appear empty for the duration
ListDuringSort(js) == {<< >>, js}

\* the signal arrives in the key function of the sort of a sort toggle: the
\* flag is already toggled, and the SystemExit leaves the list as it was
signal_in_sort(key) ==
    /\ key \in {"o", "t"}
    /\ Dispatched
    /\ jobs # << >>
    /\ sort_by_status' = (IF key = "t" THEN ~sort_by_status ELSE sort_by_status)
    /\ sort_ascending' = (IF key = "o" THEN ~sort_ascending ELSE sort_ascending)
    /\ \E seen \in ListDuringSort(jobs) :
          _signal_handler(seen, heap, sort_by_status', sort_ascending', filter_text)
    /\ UNCHANGED <<tz, listVars, filter_text, selVars, viewVars, modalVars, entryVars>>

\* the signal arrives in the removal loop of a confirmed bulk delete, after
\* `done` of the selected records have been handled
signal_in_bulk_delete(key) ==
    /\ pc = "running"
    /\ unhandled_input = "bulk_delete"
    /\ key \in {"y", "Y"}
    /\ \E done \in 0..Len(dlg_selected) :
          /\ jobs' = RemoveAllEqual(jobs, heap, SubSeq(dlg_selected, 1, done))
          /\ _signal_handler(jobs', heap, sort_by_status, sort_ascending, filter_text)
    /\ UNCHANGED <<tz, heap, filtered_jobs, prefVars, selVars, viewVars, modalVars,
                   entryVars, budget, attention, old_task_file>>

\* the text json.dump writes, in the order it writes it: the preferences, then
\* one piece per record
Written(f) == <<f.prefs>> \o f.jobs

\* the file holding the pieces
FileOf(pieces) == [kind |-> "dict", prefs |-> Head(pieces), jobs |-> Tail(pieces)]

\* two writers of the same file: the first has written `flushed` pieces and holds
\* the next `buffered` ones when the second truncates the file and writes
\* `pieces`; the first is then closed, which writes its buffer at its own offset
Overwritten(first, flushed, buffered, pieces) ==
    [i \in 1..Len(pieces) |->
        IF flushed < i /\ i <= flushed + buffered THEN first[i] ELSE pieces[i]]

\* the signal arrives inside the save_jobs of the quit key: the handler's
\* save_jobs opens the file again, and the interrupted one is closed by the
\* SystemExit leaving its `with` block
signal_in_save(key) ==
    /\ key = "q"
    /\ Dispatched
    /\ \E flushed \in 0..Len(Written(SavedNow)) :
          \E buffered \in 0..(Len(Written(SavedNow)) - flushed) :
             /\ file' = FileOf(Overwritten(Written(SavedNow), flushed, buffered,
                                           Written(SavedNow)))
             /\ pc' = "signalled"
    /\ UNCHANGED <<tz, listVars, prefVars, selVars, viewVars, modalVars, entryVars>>

\* a run() whose finally clause does not save
run_without_finally ==
    /\ pc = "signalled"
    /\ pc' = "exited"
    /\ UNCHANGED <<tz, listVars, prefVars, selVars, viewVars, modalVars, entryVars, file,
                   budget, attention, old_task_file>>

\* the finally clause of run(), reached by the SystemExit of the handler
run_finally ==
    /\ pc = "signalled"
    /\ file' = SavedNow
    /\ pc' = "exited"
    /\ UNCHANGED <<tz, listVars, prefVars, selVars, viewVars, modalVars, entryVars, budget, attention, old_task_file>>

\* KeyboardInterrupt leaves main_loop.run(): the except clause of run() saves,
\* and so does its finally clause
keyboard_interrupt ==
    /\ pc = "running"
    /\ file' = SavedNow
    /\ pc' = "exited"
    /\ UNCHANGED <<tz, listVars, prefVars, selVars, viewVars, modalVars, entryVars, budget, attention, old_task_file>>

SignalKeys == {"q", "o", "t", "s", "m", "ctrl a", "ctrl d", "y", "esc"}

InitSignal == InitWith({FileFiltered, FileTwins}, MaxCommands)

NextSignal ==
    \/ signal_while_waiting
    \/ run_finally
    \/ keyboard_interrupt
    \/ \E key \in SignalKeys :
          \/ signal_in_sort(key)
          \/ signal_in_bulk_delete(key)
          \/ signal_in_save(key)
          \/ Quit(key)
          \/ _toggle_sort_direction(key)
          \/ _toggle_sort_mode(key)
          \/ _cycle_job_status(key)
          \/ _toggle_multi_select_mode(key)
          \/ _select_all(key)
          \/ _bulk_delete(key)
          \/ handle_delete_input(key)
          \/ NoCommand(key)

SpecSignal == InitSignal /\ [][NextSignal]_vars

(***************************************************************************)
(* Attention level of a record.  datetime.now() is a day and a time of day *)
(* in ticks; strptime("%Y-%m-%d") gives the first tick of its day.         *)
(***************************************************************************)
TicksPerDay == 2

\* a datetime as a number of ticks
Instant(day, tick) == (day * TicksPerDay) + tick

\* timedelta(days=n)
timedelta(days) == days * TicksPerDay

\* JobApplication.has_upcoming_interview
has_upcoming_interview(job, now, days_ahead) ==
    IF job.interview_date = Empty THEN FALSE
    ELSE IF strptime(job.interview_date) = NoDay THEN FALSE
    ELSE LET interview_dt == Instant(strptime(job.interview_date), 0)
             today == Instant(now.day, now.tick)
         IN today <= interview_dt /\ interview_dt <= today + timedelta(days_ahead)

\* JobApplication.has_overdue_followup: compares the dates
has_overdue_followup(job, now) ==
    IF job.next_followup = Empty THEN FALSE
    ELSE IF strptime(job.next_followup) = NoDay THEN FALSE
    ELSE now.day > strptime(job.next_followup)

\* JobApplication.needs_followup_soon
needs_followup_soon(job, now, days_ahead) ==
    IF job.next_followup = Empty THEN FALSE
    ELSE IF strptime(job.next_followup) = NoDay THEN FALSE
    ELSE LET followup_dt == Instant(strptime(job.next_followup), 0)
             today == Instant(now.day, now.tick)
         IN today <= followup_dt /\ followup_dt <= today + timedelta(days_ahead)

\* JobApplication.get_attention_level, with the default days_ahead of the two checks
get_attention_level(job, now) ==
    IF has_overdue_followup(job, now) THEN "urgent"
    ELSE IF has_upcoming_interview(job, now, 7) \/ needs_followup_soon(job, now, 3)
    THEN "soon"
    ELSE "normal"

\* the dates a record may hold: around today, empty, and not a date
AttentionDates ==
    {Empty, <<"soon">>, <<"2024-06-14">>, TodayStr, <<"2024-06-16">>, <<"2024-06-18">>,
     <<"2024-06-19">>, <<"2024-06-22">>, <<"2024-06-23">>}

\* a row is about to be drawn for a record with these dates, at some time of
\* today
InitAttention ==
    /\ Constructed({NoFile}, 0)
    /\ \E interview_date, next_followup \in AttentionDates :
          \E tick \in 0..(TicksPerDay - 1) :
             attention = [level |-> "asked",
                          now |-> [day |-> strptime(TodayStr), tick |-> tick],
                          job |-> [interview_date |-> interview_date,
                                   next_followup |-> next_followup]]
    /\ old_task_file = NoFile

\* attention_level = job.get_attention_level()
ReadAttentionLevel ==
    /\ attention.level = "asked"
    /\ attention' = [attention EXCEPT !.level = get_attention_level(attention.job,
                                                                    attention.now)]
    /\ UNCHANGED <<pc, tz, listVars, prefVars, selVars, viewVars, modalVars, entryVars, file,
                   budget, old_task_file>>

NextAttention == ReadAttentionLevel

SpecAttention == InitAttention /\ [][NextAttention]_vars

(***************************************************************************)
(* Key dispatch: sessions of one command more, over the keys whose branch  *)
(* of _handle_input depends on the mode and on the selection.              *)
(***************************************************************************)
DispatchKeys ==
    {"m", " ", "ctrl a", "b", "ctrl d", "c", "ctrl q", "/", "enter", "esc", "y", "5"}

InitDispatch == InitWith({FileFiltered}, MaxCommands + 1)

NextDispatch ==
    \E key \in DispatchKeys :
        \/ _toggle_multi_select_mode(key)
        \/ _toggle_selection(key)
        \/ _select_all(key)
        \/ _bulk_status_change(key)
        \/ _bulk_delete(key)
        \/ _duplicate_job(key)
        \/ _quick_add_similar(key)
        \/ _show_search_dialog(key)
        \/ NoCommand(key)
        \/ handle_search_input(key)
        \/ handle_status_input(key)
        \/ handle_delete_input(key)
        \/ quick_handle_input(key)

SpecDispatch == InitDispatch /\ [][NextDispatch]_vars

(***************************************************************************)
(* Failing saves: sessions over a job file that cannot be written.         *)
(***************************************************************************)
\* the file of FileFiltered without write permission, and on a full device
FileReadOnly == FileFiltered @@ [disk |-> "readonly"]

FileDiskFull == FileFiltered @@ [disk |-> "full"]

SaveKeys == {"s", "d", "y", "esc", "j", "q"}

InitSave == InitWith({FileReadOnly, FileDiskFull}, MaxCommands)

NextSave ==
    \E key \in SaveKeys :
        \/ _cycle_job_status(key)
        \/ _delete_current_job(key)
        \/ delete_handle_input(key)
        \/ _move_focus(key)
        \/ Quit(key)
        \/ NoCommand(key)

SpecSave == InitSave /\ [][NextSave]_vars

(***************************************************************************)
(* Single deletes: sessions over files whose committed filter displays     *)
(* fewer records than the canonical list holds.                            *)
(***************************************************************************)
\* a committed filter that displays only the last record of the canonical list
FileLastMatch ==
    [kind |-> "dict",
     prefs |-> [sort_by_status |-> FALSE, sort_ascending |-> FALSE, filter_text |-> <<"a">>],
     jobs |-> <<ItemUndated, ItemNoStatus, ItemInterview>>]

DeleteKeys == {"d", "y", "esc", "j", "o", "s"}

InitDelete == InitWith({FileLastMatch, FileFiltered}, MaxCommands)

NextDelete ==
    \E key \in DeleteKeys :
        \/ _delete_current_job(key)
        \/ delete_handle_input(key)
        \/ _move_focus(key)
        \/ _toggle_sort_direction(key)
        \/ _cycle_job_status(key)
        \/ NoCommand(key)

SpecDelete == InitDelete /\ [][NextDelete]_vars

(***************************************************************************)
(* Records with equal fields: sessions of one command more over the file   *)
(* whose first and third records are equal, with single deletes, the       *)
(* selection and a sort toggle.                                            *)
(***************************************************************************)
TwinKeys == {"j", "d", "y", "esc", "m", " ", "o"}

InitTwins == InitWith({FileTwins}, MaxCommands + 1)

NextTwins ==
    \E key \in TwinKeys :
        \/ _move_focus(key)
        \/ _delete_current_job(key)
        \/ delete_handle_input(key)
        \/ _toggle_multi_select_mode(key)
        \/ _toggle_selection(key)
        \/ _toggle_sort_direction(key)
        \/ NoCommand(key)

SpecTwins == InitTwins /\ [][NextTwins]_vars

(***************************************************************************)
(* Properties.                                                             *)
(***************************************************************************)
\* the records of the canonical list, in order
Records == [i \in 1..Len(jobs) |-> heap[jobs[i]]]

\* C1: while the application runs, the displayed list (the list the view is
\* derived from, and the rows shown) is the order-preserving subsequence of the
\* canonical list that matches the committed filter, the whole canonical list
\* when the filter is empty; so a record deleted from the canonical list is
\* not displayed.
C1_DisplayedIsFilteredCanonical ==
    pc = "running" =>
        /\ DisplayJobs = _apply_filter(jobs, heap, filter_text)
        /\ job_list = DisplayJobs

\* C2: confirming bulk delete leaves in the canonical list exactly the records
\* that were not selected, displayed or not, in their order and unchanged.
C2_BulkDeleteRemovesExactlySelected ==
    [][(unhandled_input = "bulk_delete" /\ handle_delete_input("y"))
          => LET kept == SelectIds(jobs, Range(jobs) \ Range(_get_selected_jobs))
             IN Records' = [i \in 1..Len(kept) |-> heap[kept[i]]]]_vars

\* C3: with the focus on displayed record R, toggling the sort direction or the
\* sort mode leaves the focus on R, whatever the committed filter.
C3_SortToggleKeepsFocusedRecord ==
    [][(/\ FocusedJob # 0
        /\ _toggle_sort_direction("o") \/ _toggle_sort_mode("t")
        /\ pc' = "running")
          => FocusedJob' = FocusedJob]_vars

\* C4: every record of the canonical list has one of the five statuses; a
\* record loaded with a missing or unknown status has status Applied.
C4_StatusIsOneOfFive ==
    \A i \in Range(jobs) : heap[i].status \in StatusOptions

\* C5: outside multi-select mode the selected set is empty, and the
\* toggle-selection and select-all keys change nothing while the mode is off.
C5_SelectionOnlyInMultiSelect ==
    /\ [](~multi_select_mode => selected_jobs = {})
    /\ [][(/\ ~multi_select_mode
           /\ unhandled_input = "main"
           /\ \E key \in {" ", "ctrl a"} : HandleKey(key))
             => UNCHANGED <<pc, listVars, prefVars, selVars, viewVars, modalVars, file>>]_vars

\* a selection is held in multi-select mode with a command still to come
C5_Witness ==
    /\ multi_select_mode
    /\ selected_jobs # {}
    /\ unhandled_input = "main"
    /\ budget > 0

\* C6: a confirmed bulk status change or bulk delete leaves multi-select mode
\* off and the selected set empty; a cancelled bulk dialog leaves both as they
\* were.
C6_BulkLeavesMultiSelect ==
    [][/\ (\E key \in StatusKeys : handle_status_input(key))
            => ~multi_select_mode' /\ selected_jobs' = {}
       /\ (\E key \in {"y", "Y"} : handle_delete_input(key))
            => ~multi_select_mode' /\ selected_jobs' = {}
       /\ (handle_status_input("esc") \/ (\E key \in {"n", "N", "esc"} : handle_delete_input(key)))
            => UNCHANGED selVars]_vars

\* two records are Withdrawn at once, which only a bulk status change does
\* within the session, and the mode is off
C6_Witness ==
    /\ Cardinality({i \in Range(jobs) : heap[i].status = "Withdrawn"}) >= 2
    /\ ~multi_select_mode
    /\ selected_jobs = {}
    /\ unhandled_input = "main"

\* C7: a modal is only opened from the main handler (the handler it saved is
\* the main handler), the overlay is shown exactly while a modal handler is
\* installed, and when the installed modal handler changes, it is to the main
\* handler with the main view shown; through every step of add and quick-add.
C7_OneModalAtATime ==
    /\ [](/\ unhandled_input = "main" => widget = "ui"
          /\ unhandled_input # "main" => widget = "overlay" /\ old_handler = "main")
    /\ [][(unhandled_input # "main" /\ unhandled_input' # unhandled_input)
             => unhandled_input' = "main" /\ widget' = "ui"]_vars

\* the dialog of the last step of the multi-step add is open
C7_Witness ==
    /\ unhandled_input = "job_input"
    /\ _job_entry_step = Len(job_steps) - 1
    /\ old_handler = "main"

\* the keys with which a modal confirms
ConfirmKeys(modal) ==
    CASE modal \in {"delete", "bulk_delete"} -> {"y", "Y"}
      [] modal = "bulk_status" -> StatusKeys
      [] modal \in {"job_input", "quick_add", "search"} -> {"enter"}
      [] OTHER -> {}

\* C8: while a modal is active, only the modal's own confirm key changes the
\* canonical list or its records, the sort flags, the committed filter, the
\* selection or the multi-select mode; no other key does, main commands
\* (quit, delete, status cycle, sort toggles, multi-select, navigation) included.
C8_ModalSuspendsMainCommands ==
    [][unhandled_input # "main"
          => \/ UNCHANGED <<jobs, prefVars, selVars>> /\ Records' = Records
             \/ \E key \in ConfirmKeys(unhandled_input) : HandleKey(key)]_vars

\* the bulk status dialog is open over a selection
C8_Witness ==
    /\ unhandled_input = "bulk_status"
    /\ widget = "overlay"
    /\ selected_jobs # {}

\* the fields of the first n steps
StepFields(steps, n) == {steps[i][1] : i \in 1..n}

\* C9: starting an entry, its steps and its cancellation leave the canonical
\* list, the displayed list and the file as they were and create no record;
\* an entry starts with nothing collected, and while its dialog is open the
\* collected values are exactly those of the steps confirmed in this entry.
C9_CancelledEntryLeavesNoTrace ==
    /\ [](/\ unhandled_input = "job_input"
             => DOMAIN _current_job_data = StepFields(job_steps, _job_entry_step)
          /\ unhandled_input = "quick_add"
             => DOMAIN _quick_add_data.data = StepFields(quick_steps, _quick_add_step))
    /\ [][/\ _add_job("a") => _current_job_data' = << >> /\ _job_entry_step' = 0
          /\ (_quick_add_similar("ctrl q") /\ unhandled_input' = "quick_add")
                => _quick_add_data'.data = << >> /\ _quick_add_step' = 0
          /\ (\/ unhandled_input' \in {"job_input", "quick_add"}
              \/ job_handle_input("esc")
              \/ quick_handle_input("esc"))
                => /\ UNCHANGED <<pc, jobs, filtered_jobs, filter_text, job_list, file>>
                   /\ Records' = Records
                   /\ DisplayJobs' = DisplayJobs]_vars

\* back in the main view with an add entry cancelled after some of its steps
C9_Witness ==
    /\ unhandled_input = "main"
    /\ _job_entry_step > 0
    /\ _job_entry_step < Len(job_steps)
    /\ _current_job_data # << >>

\* text made of blanks only
Blank(text) == \A i \in 1..Len(text) : text[i] = " "

\* C10: in add and quick-add, confirming a required step whose edit box is
\* empty or blank changes nothing: the dialog stays on the step, no value is
\* stored, the step index does not advance and no record is created.
C10_BlankRequiredStepStays ==
    [][/\ (/\ pc = "running"
           /\ unhandled_input = "job_input"
           /\ job_steps[_job_entry_step + 1][2])
             => \A text \in TypedJobText(job_steps[_job_entry_step + 1][1]) :
                   (Blank(text) /\ job_confirm(text)) => UNCHANGED vars
       /\ (/\ pc = "running"
           /\ unhandled_input = "quick_add"
           /\ quick_steps[_quick_add_step + 1][2])
             => \A text \in TypedQuickText(quick_steps[_quick_add_step + 1][1],
                                           heap[_quick_add_data.template]) :
                   (Blank(text) /\ quick_confirm(text)) => UNCHANGED vars]_vars

\* the dialog of the position step, required and possibly left empty, is open
C10_Witness ==
    /\ unhandled_input = "job_input"
    /\ job_steps[_job_entry_step + 1][1] = "position"
    /\ _current_job_data # << >>

\* C11: the multi-step add starts at step 0; while its dialog is open the step
\* index is one of the 13 steps and only the confirm key moves it, by one; the
\* canonical list does not change before the 13th step is confirmed, and
\* confirming it appends exactly one record, whose status is Applied and whose
\* company and position are not empty.
C11_AddAppendsOnceAfterLastStep ==
    /\ [](unhandled_input = "job_input" => _job_entry_step \in 0..(Len(job_steps) - 1))
    /\ [][/\ _add_job("a") => _job_entry_step' = 0
          /\ unhandled_input = "job_input"
               => /\ _job_entry_step' \in {_job_entry_step, _job_entry_step + 1}
                  /\ _job_entry_step' # _job_entry_step => job_handle_input("enter")
                  /\ _job_entry_step' < Len(job_steps) => jobs' = jobs /\ Records' = Records
                  /\ _job_entry_step' = Len(job_steps)
                       => /\ _job_entry_step = Len(job_steps) - 1
                          /\ Len(jobs') = Len(jobs) + 1
                          /\ Range(jobs) \subseteq Range(jobs')
                          /\ \A i \in Range(jobs) : heap'[i] = heap[i]
                          /\ \A i \in Range(jobs') \ Range(jobs) :
                                /\ heap'[i].status = "Applied"
                                /\ ~Blank(heap'[i].company)
                                /\ ~Blank(heap'[i].position)]_vars

\* the 13 steps have been confirmed and the record typed in them is in the list
C11_Witness ==
    /\ unhandled_input = "main"
    /\ _job_entry_step = Len(job_steps)
    /\ \E i \in Range(jobs) :
          /\ heap[i].company = CompanyC
          /\ heap[i].position = PositionD
          /\ heap[i].status = "Applied"

\* the failures load_jobs catches: the file cannot be opened, it is not JSON, or
\* the first item that does not load is an object without a required key
LoadFails(f) ==
    \/ f.kind \in {"unreadable", "malformed"}
    \/ /\ f.kind \in {"dict", "list"}
       /\ \E i \in 1..Len(f.jobs) :
             /\ IsObject(f.jobs[i]) /\ ~ItemLoads(f.jobs[i])
             /\ \A k \in 1..(i - 1) : IsObject(f.jobs[k])

\* C12: when load_jobs fails on the file, __init__ leaves the empty canonical
\* list and the default preferences (sort_by_status false, sort_ascending
\* false, filter_text empty), whatever preferences the file holds.
C12_FailedLoadLeavesDefaults ==
    [][(__init__ /\ LoadFails(file))
          => /\ jobs' = << >>
             /\ sort_by_status' = FALSE
             /\ sort_ascending' = FALSE
             /\ filter_text' = Empty]_vars

\* C13: on a file that holds well-formed JSON of any shape, load_jobs does not
\* raise, and start-up goes on to the running application (unless the sort
\* after it, which has read the time zone, raises).
C13_LoadNeverRaises ==
    [][(__init__ /\ file.kind \in {"dict", "list", "object", "null"})
          => /\ ~load_jobs(file).raises
             /\ pc' = "running" \/ tz' # "unread"]_vars

\* C14: in every state, load_jobs applied to what save_jobs writes does not
\* raise and yields the canonical list, record for record, field for field and
\* in the same order, and the same sort_by_status, sort_ascending and
\* filter_text.
C14_SaveThenLoadRoundTrip ==
    LET loaded == load_jobs(SavedNow)
    IN /\ ~loaded.raises
       /\ loaded.jobs = Records
       /\ loaded.sort_by_status = sort_by_status
       /\ loaded.sort_ascending = sort_ascending
       /\ loaded.filter_text = filter_text

\* a state none of whose saved values is a default of load_jobs: a record with
\* notes and one whose status is not Applied, a committed filter, ascending order
C14_Witness ==
    /\ \E i \in Range(jobs) : heap[i].notes # Empty
    /\ \E i \in Range(jobs) : heap[i].status # "Applied"
    /\ filter_text # Empty
    /\ sort_ascending

\* C15: whenever the application is running with the main handler installed
\* (no modal open), the file holds the canonical list as it is in memory, in
\* the same order, and the committed filter text.
C15_IdleFileMatchesMemory ==
    (pc = "running" /\ unhandled_input = "main")
        => LET persisted == load_jobs(file)
           IN /\ persisted.jobs = Records
              /\ persisted.filter_text = filter_text

\* C16: when the signal handler has saved, wherever the signal interrupted the
\* main loop (waiting for a key, sorting the canonical list, removing the
\* records of a bulk delete, saving), the file holds the whole canonical list
\* and the preferences of that moment.
C16_SignalSaveHoldsCanonicalList ==
    pc = "signalled" => file = SavedNow

\* C17: when the process has ended through the quit key, a signal or a
\* KeyboardInterrupt, the last thing written to the file is the in-memory
\* state of that moment.
C17_ExitSavesCurrentState ==
    /\ [](pc = "exited" => file = SavedNow)
    /\ [][pc' = "exited" => file' = SavedNow']_vars

\* the process has ended over a canonical list in an order the file it
\* started from did not have
C17_Witness ==
    /\ pc = "exited"
    /\ jobs # << >>
    /\ Records # load_jobs(FileFiltered).jobs
    /\ Records # load_jobs(FileTwins).jobs

\* the records of a list of identities, in order
RecordsOf(js) == [i \in 1..Len(js) |-> heap[js[i]]]

C19_StatusSortOrdersDisplay ==
    (pc = "running" /\ sort_by_status)
        => \A i, k \in 1..Len(DisplayJobs) :
              i < k => status_priority(heap[DisplayJobs[i]].status)
                          <= status_priority(heap[DisplayJobs[k]].status)

\* C20: whenever the application runs under date sort, the displayed records
\* whose date_applied parses are oldest first when sort_ascending is true and
\* newest first when it is false.
C20_DateSortOrdersDisplay ==
    (pc = "running" /\ ~sort_by_status)
        => \A i, k \in 1..Len(DisplayJobs) :
              (/\ i < k
               /\ strptime(heap[DisplayJobs[i]].date_applied) # NoDay
               /\ strptime(heap[DisplayJobs[k]].date_applied) # NoDay)
                  => IF sort_ascending
                     THEN strptime(heap[DisplayJobs[i]].date_applied)
                             <= strptime(heap[DisplayJobs[k]].date_applied)
                     ELSE strptime(heap[DisplayJobs[i]].date_applied)
                             >= strptime(heap[DisplayJobs[k]].date_applied)

\* under ascending date sort the display holds a record added in this session
\* (dated today) after an older one, and a record whose date does not parse
C20_Witness ==
    /\ pc = "running"
    /\ ~sort_by_status
    /\ sort_ascending
    /\ \E i, k \in 1..Len(DisplayJobs) :
          /\ i < k
          /\ strptime(heap[DisplayJobs[i]].date_applied) = 10
          /\ heap[DisplayJobs[k]].date_applied = TodayStr

\* C21: whenever the application runs under date sort, no record whose
\* date_applied does not parse stands before a record whose date parses, in the
\* canonical list or in the displayed list, whatever the direction.
C21_UndatedLastUnderDateSort ==
    (pc = "running" /\ ~sort_by_status)
        => LET UndatedLast(js) ==
                   \A i, k \in 1..Len(js) :
                       (i < k /\ strptime(heap[js[i]].date_applied) = NoDay)
                           => strptime(heap[js[k]].date_applied) = NoDay
           IN UndatedLast(jobs) /\ UndatedLast(DisplayJobs)

\* C23: in the search dialog, the preview that runs when the dialog opens and
\* after every key other than the confirm and cancel keys leaves the committed
\* filter and the displayed list as they were; cancelling leaves the committed
\* filter, the displayed list and the file as they were.
C23_PreviewKeepsCommittedFilter ==
    [][/\ (_show_search_dialog("/")
           \/ (unhandled_input = "search" /\ unhandled_input' = "search"))
             => filter_text' = filter_text /\ DisplayJobs' = DisplayJobs
       /\ handle_search_input("esc")
             => /\ filter_text' = filter_text
                /\ DisplayJobs' = DisplayJobs
                /\ file' = file]_vars

\* the sort key of a record in a sort run with the flags by_status, ascending
SortKey(job, by_status, ascending) ==
    IF by_status
    THEN <<status_priority(job.status), 0 - _parse_date(job.date_applied, ascending)>>
    ELSE <<0, _parse_date(job.date_applied, ascending)>>

\* the place of identity x in a list of identities
PlaceOf(js, x) == CHOOSE i \in 1..Len(js) : js[i] = x

\* the sort keeps the records and the relative order of records with equal keys
StableOn(js, by_status, ascending) ==
    LET sorted == _sort_jobs(js, heap, by_status, ascending)
    IN /\ Len(sorted) = Len(js)
       /\ Range(sorted) = Range(js)
       /\ \A i, k \in 1..Len(js) :
             (/\ i < k
              /\ SortKey(heap[js[i]], by_status, ascending)
                    = SortKey(heap[js[k]], by_status, ascending))
                => PlaceOf(sorted, js[i]) < PlaceOf(sorted, js[k])

\* C22: in both modes and both directions the sort of the canonical list keeps
\* the relative order of records with equal sort keys; and under date sort,
\* toggling the direction and toggling it back puts the canonical list back in
\* the order it had and displays the displayed records (those still on the
\* canonical list) in the order they were displayed in.
C22_SortIsStable ==
    /\ [](\A by_status, ascending \in BOOLEAN : StableOn(jobs, by_status, ascending))
    /\ [][(/\ ~sort_by_status
           /\ _toggle_sort_direction("o"))
             => LET back == _apply_sort_and_refresh(jobs', heap', FALSE, sort_ascending,
                                                    filter_text, focus')
                IN /\ back.jobs = jobs
                   /\ back.job_list = SelectIds(DisplayJobs, Range(jobs))]_vars

\* date sort over a canonical list that holds two records with equal dates,
\* with the direction toggled in this session
C22_Witness ==
    /\ pc = "running"
    /\ ~sort_by_status
    /\ sort_ascending
    /\ \E i, k \in 1..Len(jobs) :
          /\ i < k
          /\ heap[jobs[i]] # heap[jobs[k]]
          /\ strptime(heap[jobs[i]].date_applied) = strptime(heap[jobs[k]].date_applied)

\* C24: select-all in multi-select mode leaves as the selected set exactly the
\* identities of the displayed records, whatever was selected before: every
\* displayed record is selected, nothing that is not displayed stays selected,
\* and no record of the canonical list that the committed filter excludes is
\* selected.
C24_SelectAllSelectsDisplayed ==
    [][_select_all("ctrl a")
          => /\ selected_jobs' = Range(DisplayJobs)
             /\ selected_jobs' = Range(job_list')
             /\ \A id \in Range(jobs) :
                   (filter_text # Empty /\ ~Matches(heap[id], filter_text))
                      => id \notin selected_jobs']_vars

\* select-all has acted under a committed filter that excludes a record: more
\* than one record is selected, which single toggles cannot reach in a session
\* of this length
C24_Witness ==
    /\ multi_select_mode
    /\ filter_text # Empty
    /\ Cardinality(selected_jobs) >= 2
    /\ selected_jobs = Range(DisplayJobs)
    /\ \E id \in Range(jobs) : ~Matches(heap[id], filter_text)

\* C25: in multi-select mode the toggle-selection key flips the membership of
\* the focused displayed record in the selected set, leaves the membership of
\* every other identity as it was, and a second toggle of the same record gives
\* back the selected set there was before the first.
C25_ToggleFlipsFocusedOnly ==
    [][(_toggle_selection(" ") /\ FocusedJob # 0)
          => /\ (FocusedJob \in selected_jobs') # (FocusedJob \in selected_jobs)
             /\ \A id \in IdSet \ {FocusedJob} :
                   (id \in selected_jobs') = (id \in selected_jobs)
             /\ Toggled(selected_jobs', FocusedJob) = selected_jobs]_vars

\* the toggle has acted on the second displayed record: it alone is selected
C25_Witness ==
    /\ multi_select_mode
    /\ Len(DisplayJobs) >= 2
    /\ selected_jobs = {DisplayJobs[2]}

\* the operations that change the displayed list: the confirmed single delete,
\* the confirmed bulk delete, the commit of a filter, the end of an add, of a
\* duplicate and of a quick add, the status cycle, the bulk status change and
\* the two sort toggles
ListChanging ==
    \/ delete_handle_input("y")
    \/ handle_delete_input("y")
    \/ handle_search_input("enter")
    \/ job_handle_input("enter")
    \/ quick_handle_input("enter")
    \/ _duplicate_job("c")
    \/ _cycle_job_status("s")
    \/ handle_status_input("5")
    \/ _toggle_sort_direction("o")
    \/ _toggle_sort_mode("t")

\* C26: every operation that changes the displayed list sets the focus without
\* the list refusing the position, and when the displayed list it leaves is not
\* empty the focus it leaves is an index into that list.
C26_FocusIsValidIndex ==
    [][ListChanging
          => /\ pc' = "running"
             /\ DisplayJobs' # << >> => (0 <= focus' /\ focus' < Len(DisplayJobs'))]_vars

\* the step that ends an add: the confirmation of the last step of the add
\* dialog or of the quick-add dialog, or the duplicate key on a focused record
Finalizes ==
    \/ /\ unhandled_input = "job_input"
       /\ _job_entry_step = Len(job_steps) - 1
       /\ _job_entry_step' = Len(job_steps)
    \/ /\ unhandled_input = "quick_add"
       /\ _quick_add_step = Len(quick_steps) - 1
       /\ _quick_add_step' = Len(quick_steps)
    \/ /\ _duplicate_job("c")
       /\ FocusedJob # 0

\* C27: the end of an add, of a duplicate and of a quick add leaves one new
\* record in the canonical list; when the committed filter is empty or matches
\* the new record the focus is the row of the new record in the displayed
\* list, otherwise the focus is row 0.
C27_FocusOnNewRecord ==
    [][Finalizes
          => /\ Len(jobs') = Len(jobs) + 1
             /\ \E id \in Range(jobs') \ Range(jobs) :
                   IF filter_text = Empty \/ Matches(heap'[id], filter_text)
                   THEN /\ focus' < Len(DisplayJobs')
                        /\ DisplayJobs'[focus' + 1] = id
                   ELSE focus' = 0]_vars

\* C28: the status cycle on a focused record gives it the status that follows its
\* own in Applied, Interview, Offer, Rejected, Withdrawn (Applied after
\* Withdrawn), so that four more cycles give back the status it had; it keeps
\* every other field of the record and every field of every other record.
C28_StatusCycleFollowsOrder ==
    [][(_cycle_job_status("s") /\ FocusedJob # 0)
          => /\ \A id \in DOMAIN heap' \ {FocusedJob} : heap'[id] = heap[id]
             /\ FocusedJob \in DOMAIN heap'
                   => /\ \E i \in 1..Len(get_status_options) :
                            /\ heap[FocusedJob].status = get_status_options[i]
                            /\ heap'[FocusedJob].status
                                  = get_status_options[(i % Len(get_status_options)) + 1]
                      /\ NextStatus(NextStatus(NextStatus(NextStatus(
                             heap'[FocusedJob].status)))) = heap[FocusedJob].status
                      /\ heap'[FocusedJob]
                            = [heap[FocusedJob] EXCEPT !.status = heap'[FocusedJob].status]]_vars

\* C29: with today the day of the clock, the level returned is urgent exactly
\* when next_followup is a date before today; otherwise soon exactly when
\* interview_date is a date from today to today + 7 or next_followup is a date
\* from today to today + 3, the bounds included; otherwise normal.  An empty
\* or unparsable date is no date.
C29_AttentionLevelByDay ==
    attention.level \notin {"none", "asked"}
       => LET today == attention.now.day
              interview == strptime(attention.job.interview_date)
              followup == strptime(attention.job.next_followup)
              urgent == followup # NoDay /\ followup < today
              soon == \/ interview # NoDay /\ today <= interview /\ interview <= today + 7
                      \/ followup # NoDay /\ today <= followup /\ followup <= today + 3
          IN attention.level = IF urgent THEN "urgent"
                               ELSE IF soon THEN "soon" ELSE "normal"

\* C30: a key given to _handle_input with multi-select off leaves every
\* attribute and the file as they were when it is the toggle-selection, the
\* select-all, the bulk-status or the bulk-delete key; with multi-select on,
\* when it is the duplicate or the quick-add key; in both modes when it is a
\* key _handle_input has no branch for; and the bulk-status and bulk-delete
\* keys open no dialog when no displayed record has its identity in the
\* selected set.
C30_DispatchByMode ==
    [][/\ (/\ ~multi_select_mode
           /\ \E key \in {" ", "ctrl a", "b", "ctrl d"} : _handle_input(key))
             => UNCHANGED <<pc, tz, listVars, prefVars, selVars, viewVars, modalVars,
                            entryVars, file>>
       /\ (/\ multi_select_mode
           /\ \E key \in {"c", "ctrl q"} : _handle_input(key))
             => UNCHANGED <<pc, tz, listVars, prefVars, selVars, viewVars, modalVars,
                            entryVars, file>>
       /\ (\E key \in {"y", "esc", "5"} : _handle_input(key))
             => UNCHANGED <<pc, tz, listVars, prefVars, selVars, viewVars, modalVars,
                            entryVars, file>>
       /\ (/\ Range(DisplayJobs) \cap selected_jobs = {}
           /\ \E key \in {"b", "ctrl d"} : _handle_input(key))
             => UNCHANGED <<pc, tz, listVars, prefVars, selVars, viewVars, modalVars,
                            entryVars, file>>]_vars

\* in multi-select mode a record is selected that the committed filter no
\* longer displays, and a further key has been handled without opening a
\* dialog
C30_Witness ==
    /\ multi_select_mode
    /\ selected_jobs # {}
    /\ Range(DisplayJobs) \cap selected_jobs = {}
    /\ unhandled_input = "main"
    /\ budget = 0

\* C31: in a running session a record leaves the canonical list only in the
\* step that confirms a single delete or a bulk delete: every other step (an
\* add, a status cycle, a sort toggle, a filter commit, the multi-select keys,
\* the display dialogs, a cancelled delete dialog) keeps every identity of the
\* canonical list in it.
C31_OnlyDeletesRemove ==
    [][\/ Range(jobs) \subseteq Range(jobs')
       \/ /\ unhandled_input = "delete"
          /\ delete_handle_input("y")
       \/ /\ unhandled_input = "bulk_delete"
          /\ handle_delete_input("y")]_vars

\* a duplicate, a sort-mode toggle and the multi-select key have been handled
\* and the four records are in the canonical list
C31_Witness ==
    /\ pc = "running"
    /\ multi_select_mode
    /\ sort_by_status
    /\ Len(jobs) = 4
    /\ unhandled_input = "main"

\* C32: when the job file cannot be opened for writing or the write fails, the
\* status cycle and the confirmed single delete complete as they do when the
\* save works: the save raises nothing (the handler ends early only when the
\* list box refuses the focus position), the status is cycled or the record
\* removed, the dialog is closed, and the sort flags, the filter and the
\* selection are as they were; so does every later command of the session.
C32_FailedSaveIsSilent ==
    [][/\ (_cycle_job_status("s") /\ FocusedJob # 0)
             => /\ pc' = "running" \/ focus >= JobListLen(job_list')
                /\ jobs' = jobs
                /\ FocusedJob \in DOMAIN heap'
                      => heap'[FocusedJob].status = NextStatus(heap[FocusedJob].status)
                /\ UNCHANGED <<prefVars, selVars, modalVars>>
       /\ (unhandled_input = "delete" /\ delete_handle_input("y"))
             => /\ pc' = "running" \/ Len(jobs') - 1 >= JobListLen(job_list')
                /\ jobs' = RemoveAt(jobs, dlg_focus_pos + 1)
                /\ pc' = "running" => unhandled_input' = "main"
                /\ UNCHANGED <<prefVars, selVars>>
       /\ OpenRaises(file) => file' = file]_vars

\* two status cycles have been handled while no save could write: the record
\* in memory is two statuses from the one in the file it was loaded from
C32_Witness ==
    /\ pc = "running"
    /\ OpenRaises(file)
    /\ \E i \in 1..Len(jobs) :
          /\ i <= Len(file.jobs)
          /\ Get(file.jobs[i], "status", "Applied") = "Applied"
          /\ heap[jobs[i]].status = "Offer"

\* C33: migration runs only when the old task file exists and the job file does
\* not; every item of the old list that has a text becomes one record, in order,
\* whose company and position are the parts of the text around its first " - "
\* (or "Unknown Company" and the whole text), Rejected when completed and
\* Applied otherwise; the records are saved and loaded, and the old file is
\* renamed, so that a later start-up leaves both files alone
C33_MigratesOnce ==
    [][__init__ =>
          /\ (file' # file \/ old_task_file' # old_task_file)
                => old_task_file.kind # "absent" /\ file.kind = "absent"
          /\ (old_task_file.kind = "list" /\ file.kind = "absent")
                => \E items \in {TextItems(old_task_file.items)} :
                      /\ file'.kind = "dict"
                      /\ Len(file'.jobs) = Len(items)
                      /\ \A i \in 1..Len(items) :
                            /\ IF Contains(Separator, items[i].text)
                               THEN /\ file'.jobs[i].company \o Separator
                                           \o file'.jobs[i].position = items[i].text
                                    /\ ~Contains(Separator,
                                                 file'.jobs[i].company \o <<" ", "-">>)
                               ELSE /\ file'.jobs[i].company = <<"Unknown Company">>
                                    /\ file'.jobs[i].position = items[i].text
                            /\ file'.jobs[i].status =
                                  IF "completed" \in DOMAIN items[i] /\ items[i].completed
                                  THEN "Rejected" ELSE "Applied"
                      /\ pc' = "running"
                      /\ Len(jobs') = Len(items)
                      /\ {heap'[jobs'[i]] : i \in 1..Len(jobs')} = Range(file'.jobs)
                      /\ old_task_file'.kind = "absent"
          /\ "bak" \in DOMAIN old_task_file => UNCHANGED <<file, old_task_file>>]_vars

\* the next start-up after a migration of three tasks, one with two separators
C33_Witness ==
    /\ pc = "starting"
    /\ "bak" \in DOMAIN old_task_file
    /\ file.kind = "dict"
    /\ Len(file.jobs) = 3
    /\ \E i \in 1..Len(file.jobs) :
          /\ file.jobs[i].company = <<"A">>
          /\ file.jobs[i].position = <<"b", " ", "-", " ", "c">>
          /\ file.jobs[i].status = "Rejected"

\* C34: with a non-empty committed filter, the commands on the focused record act
\* on the record at the focus index of the displayed list: a confirmed single
\* delete removes exactly that record from the canonical list, a status cycle
\* changes that record only, a toggle flips its identity in the selected set and
\* a duplicate copies its company and position
C34_FocusedIsDisplayed ==
    [][(filter_text # Empty /\ focus < Len(filtered_jobs))
          => \E target \in {filtered_jobs[focus + 1]} :
                /\ (unhandled_input = "delete" /\ delete_handle_input("y"))
                      => jobs' = SelectSeq(jobs, LAMBDA j : j # target)
                /\ _cycle_job_status("s")
                      => /\ \A j \in (DOMAIN heap \cap DOMAIN heap') \ {target} :
                               heap'[j] = heap[j]
                         /\ target \in DOMAIN heap'
                               => heap'[target].status = NextStatus(heap[target].status)
                /\ _toggle_selection(" ")
                      => selected_jobs' = Toggled(selected_jobs, target)
                /\ _duplicate_job("c")
                      => \E id \in Range(jobs') \ Range(jobs) :
                            /\ heap'[id].company = heap[target].company
                            /\ heap'[id].position = heap[target].position]_vars

\* C35: in the main view, with records displayed, "G" moves the focus to the last
\* displayed record and "g" to the first
C35_TopAndBottomKeys ==
    [][/\ (unhandled_input = "main" /\ DisplayJobs # << >> /\ _handle_input("G"))
             => focus' = Len(DisplayJobs) - 1
       /\ (unhandled_input = "main" /\ DisplayJobs # << >> /\ _handle_input("g"))
             => focus' = 0]_vars

\* C36: whenever the program waits for a key, the sort mode and the sort direction
\* in the job file are the ones in memory
C36_IdleFileHoldsSortPrefs ==
    (pc = "running" /\ file.kind = "dict")
        => /\ Get(file.prefs, "sort_by_status", FALSE) = sort_by_status
           /\ Get(file.prefs, "sort_ascending", FALSE) = sort_ascending

\* C37: every identity in the selected set is the identity of a record of the
\* canonical list
C37_SelectedAreCanonical == selected_jobs \subseteq Range(jobs)

\* C38: a bulk dialog opens on the records that are selected and displayed, and
\* its confirmation changes no other record: a bulk status change leaves the
\* canonical list and every other record as they were, and a bulk delete removes
\* none but those records
C38_BulkTouchesSelectedDisplayed ==
    [][/\ ((_bulk_status_change("b") \/ _bulk_delete("ctrl d"))
              /\ unhandled_input' # unhandled_input)
             => Range(dlg_selected') = selected_jobs \cap Range(DisplayJobs)
       /\ (unhandled_input = "bulk_status" /\ \E key \in StatusKeys : handle_status_input(key))
             => /\ jobs' = jobs
                /\ \A j \in (DOMAIN heap \cap DOMAIN heap') \ Range(dlg_selected) :
                      heap'[j] = heap[j]
       /\ (unhandled_input = "bulk_delete" /\ handle_delete_input("y"))
             => /\ Range(jobs) \ Range(jobs') \subseteq Range(dlg_selected)
                /\ \A j \in DOMAIN heap \cap DOMAIN heap' : heap'[j] = heap[j]]_vars

\* C39: among records with equal fields, when the display shows the canonical
\* list, the operations on a record reach that very object: a confirmed single
\* delete removes the focused record and no other, a confirmed bulk delete
\* removes the captured records and no other, and after a sort toggle the focus
\* is on the record that had it
C39_IdentityNotEquality ==
    [][DisplayJobs = jobs
          => /\ (unhandled_input = "delete" /\ delete_handle_input("y") /\ FocusedJob # 0)
                   => jobs' = SelectSeq(jobs, LAMBDA j : j # FocusedJob)
             /\ (unhandled_input = "bulk_delete" /\ handle_delete_input("y"))
                   => jobs' = SelectSeq(jobs, LAMBDA j : j \notin Range(dlg_selected))
             /\ (_toggle_sort_direction("o") /\ FocusedJob # 0 /\ pc' = "running")
                   => FocusedJob' = FocusedJob]_vars

====
